---- MODULE Spec2Model ----
(***************************************************************************)
(* Call-graph construction (CallGraphAnalyzer), the unreachable-function   *)
(* query and the bottom-up CallGraphWalker of call_graph_analyzer.py.      *)
(*                                                                         *)
(* A dotted name ("m.C.f") is held as the sequence of its segments         *)
(* (<<"m","C","f">>): str.split(".") of the name.  The empty string has    *)
(* the single segment "" (Python: "".split(".") == [""]).                  *)
(* An optional value (None or v) is held as <<>> or <<v>>.                 *)
(*                                                                         *)
(* TypeHintRemover of type_hint_remover.py: a text is held as the sequence *)
(* of its lines, text.splitlines(), each line a string.                    *)
(***************************************************************************)
EXTENDS Integers, Sequences, FiniteSets, TLC

VARIABLES
    nodes,              \* CallGraphAnalyzer.nodes: key -> FunctionNode
    order,              \* insertion order of the keys of nodes (dict order)
    files_to_functions, \* CallGraphAnalyzer.files_to_functions
    imports,            \* CallGraphAnalyzer.imports
    current_file,       \* CallGraphAnalyzer.current_file
    current_class,      \* CallGraphAnalyzer.current_class
    current_namespace,  \* CallGraphAnalyzer.current_namespace
    analysed,           \* history: the (path, tree) pairs analysed so far, in order
    resolutions,        \* history: the calls resolved so far, in order
    repository_scan,    \* history: the analyze_repository call, None before it
    unreachable,        \* the last result of find_unreachable_functions
    w_state,            \* walker: "none" (not created), "idle", "stopped"
    visited,            \* CallGraphWalker.visited
    leaf_nodes,         \* CallGraphWalker.leaf_nodes (the FIFO queue)
    initial_leaf_nodes, \* history: leaf_nodes as computed by __init__
    yielded,            \* history: the nodes returned by __next__, in order
    pops,               \* history: number of leaf_nodes.pop(0) executed
    remover_call        \* the call made into type_hint_remover.py and its outcome, None before it

vars == <<nodes, order, files_to_functions, imports, current_file,
          current_class, current_namespace, analysed, resolutions,
          repository_scan, unreachable,
          w_state, visited, leaf_nodes, initial_leaf_nodes, yielded, pops,
          remover_call>>

builderVars == <<nodes, order, files_to_functions, imports, current_file,
                 current_class, current_namespace, analysed, resolutions,
                 repository_scan>>

walkerVars == <<w_state, visited, leaf_nodes, initial_leaf_nodes, yielded, pops>>

\* Number of analyze_file calls in one run.
MaxAnalyses == 2

\* Length of the lines given to lines_match.
MaxLineLen == 3

\* Items of the body of a source file and of a compound statement.
MaxItems == 2

\* Lines of the original and of the processed text given to the aligner.
MaxOriginalLines == 3
MaxProcessedLines == 2

None == <<>>
Some(v) == <<v>>

----------------------------------------------------------------------------
(* Strings and names *)

\* The segments of ".".join(parts): an empty list joins to "".
Join(parts) == IF parts = <<>> THEN <<"">> ELSE parts

\* The segments of f"{prefix}.{rest}".
Dot(prefix, rest) == prefix \o rest

\* name.endswith("." + seg), seg a single segment.
EndsWithSegment(name, seg) == Len(name) >= 2 /\ name[Len(name)] = seg

\* Python list slice xs[:-k].
DropLast(xs, k) == IF Len(xs) <= k THEN <<>> ELSE SubSeq(xs, 1, Len(xs) - k)

\* str.startswith on identifiers, by characters.
StartsWith(chars, prefix) ==
    /\ Len(chars) >= Len(prefix)
    /\ SubSeq(chars, 1, Len(prefix)) = prefix

UpperCase == {"A", "B", "C", "D", "E", "F", "G", "H", "I", "J", "K", "L", "M",
              "N", "O", "P", "Q", "R", "S", "T", "U", "V", "W", "X", "Y", "Z"}

\* The identifiers of the modelled programs, spelled out as characters.
Chars(id) ==
    CASE id = "f" -> <<"f">>
      [] id = "g" -> <<"g">>
      [] id = "h" -> <<"h">>
      [] id = "a" -> <<"a">>
      [] id = "b" -> <<"b">>
      [] id = "len" -> <<"l", "e", "n">>
      [] id = "sum" -> <<"s", "u", "m">>
      [] id = "test_f" -> <<"t", "e", "s", "t", "_", "f">>
      [] id = "TestCase" -> <<"T", "e", "s", "t", "C", "a", "s", "e">>
      [] id = "Testing" -> <<"T", "e", "s", "t", "i", "n", "g">>
      [] id = "inner" -> <<"i", "n", "n", "e", "r">>
      [] id = "__init__" -> <<"_", "_", "i", "n", "i", "t", "_", "_">>
      [] id = "add_item" -> <<"a", "d", "d", "_", "i", "t", "e", "m">>
      [] id = "total" -> <<"t", "o", "t", "a", "l">>
      [] id = "Cart" -> <<"C", "a", "r", "t">>
      [] id = "cart" -> <<"c", "a", "r", "t">>
      [] id = "price" -> <<"p", "r", "i", "c", "e">>
      [] id = "run" -> <<"r", "u", "n">>
      [] id = "now" -> <<"n", "o", "w">>
      [] id = "dt" -> <<"d", "t">>
      [] id = "m" -> <<"m">>
      [] id = "n" -> <<"n">>
      [] id = "bad" -> <<"b", "a", "d">>
      [] id = "notes" -> <<"n", "o", "t", "e", "s">>
      [] id = "test_m" -> <<"t", "e", "s", "t", "_", "m">>
      [] id = "m_test" -> <<"m", "_", "t", "e", "s", "t">>
      [] id = "tests" -> <<"t", "e", "s", "t", "s">>
      [] id = "Test" -> <<"T", "e", "s", "t">>
      [] id = "Tests" -> <<"T", "e", "s", "t", "s">>
      [] id = ".py" -> <<".", "p", "y">>
      [] id = ".txt" -> <<".", "t", "x", "t">>
      [] id = "" -> <<>>
      [] OTHER -> <<"?">>

\* dir(builtins), restricted to the names the modelled programs use.
Builtins == {"len", "sum"}

----------------------------------------------------------------------------
(* Syntax trees.  A statement is one of                                    *)
(*   [type |-> "FunctionDef", name, lineno, end_lineno, calls, body]       *)
(*   [type |-> "ClassDef", name, body]                                     *)
(*   [type |-> "Import", name, asname]                                     *)
(*   [type |-> "ImportFrom", module, name, asname]                         *)
(* where calls are the ast.Call nodes of the function's own statements     *)
(* and body the definitions and imports nested in it.  A call is           *)
(*   [func |-> "Name", id] | [func |-> "Attribute", value, attr]           *)
(*   | [func |-> "Other"]   (callee is neither a name nor name.attr)       *)

FunctionDef(name, lineno, end_lineno, calls, body) ==
    [type |-> "FunctionDef", name |-> name, lineno |-> lineno,
     end_lineno |-> end_lineno, calls |-> calls, body |-> body]

ClassDef(name, body) == [type |-> "ClassDef", name |-> name, body |-> body]

Import(name, asname) == [type |-> "Import", name |-> name, asname |-> asname]

ImportFrom(module, name, asname) ==
    [type |-> "ImportFrom", module |-> module, name |-> name, asname |-> asname]

CallName(id) == [func |-> "Name", id |-> id]

CallAttribute(value, attr) == [func |-> "Attribute", value |-> value, attr |-> attr]

CallOther == [func |-> "Other"]

\* The ast.Call nodes ast.walk(node) meets: those of the node's own
\* statements, then those of the definitions nested in it.
RECURSIVE WalkCalls(_)
RECURSIVE WalkCallsOfBody(_)
WalkCallsOfBody(body) ==
    IF body = <<>> THEN <<>>
    ELSE WalkCalls(Head(body)) \o WalkCallsOfBody(Tail(body))

WalkCalls(node) ==
    CASE node.type = "FunctionDef" -> node.calls \o WalkCallsOfBody(node.body)
      [] node.type = "ClassDef" -> WalkCallsOfBody(node.body)
      [] OTHER -> <<>>

\* A path string, held as its directory, the stem of its base name and the
\* extension: "a/m.py" is Path("a", "m", ".py"), "builtins" is Path("", "builtins", "").
Path(dir, stem, ext) == [dir |-> dir, stem |-> stem, ext |-> ext]

\* The string "builtins" that stands for the file of a called-only node.
BuiltinsFile == Path("", "builtins", "")

\* os.path.splitext(os.path.basename(path))[0]
ModuleName(path) == path.stem

\* str.endswith, by characters.
EndsWith(chars, suffix) ==
    /\ Len(chars) >= Len(suffix)
    /\ SubSeq(chars, Len(chars) - Len(suffix) + 1, Len(chars)) = suffix

LowerCase == <<"a", "b", "c", "d", "e", "f", "g", "h", "i", "j", "k", "l", "m",
               "n", "o", "p", "q", "r", "s", "t", "u", "v", "w", "x", "y", "z">>

Alphabet == <<"A", "B", "C", "D", "E", "F", "G", "H", "I", "J", "K", "L", "M",
              "N", "O", "P", "Q", "R", "S", "T", "U", "V", "W", "X", "Y", "Z">>

\* str.lower, by characters.
Lower(chars) ==
    [i \in DOMAIN chars |->
        IF chars[i] \in UpperCase
        THEN LowerCase[CHOOSE j \in DOMAIN Alphabet : Alphabet[j] = chars[i]]
        ELSE chars[i]]

\* pathlib.Path(path).parts, each part by characters.
Parts(path) ==
    (IF path.dir = "" THEN <<>> ELSE <<Chars(path.dir)>>)
    \o <<Chars(path.stem) \o Chars(path.ext)>>

\* utils.is_test_file
is_test_file(path) ==
    LET file_name == Chars(path.stem) \o Chars(path.ext)
    IN  \/ StartsWith(file_name, <<"t", "e", "s", "t", "_">>)
        \/ EndsWith(file_name, <<"_", "t", "e", "s", "t", ".", "p", "y">>)
        \/ \E i \in DOMAIN Parts(path) :
               Lower(Parts(path)[i]) \in {<<"t", "e", "s", "t">>,
                                          <<"t", "e", "s", "t", "s">>}

----------------------------------------------------------------------------
(* FunctionNode *)

\* FunctionNode.__init__
FunctionNode(name, filename, is_called_only, lineno, end_lineno) ==
    [name |-> name, filename |-> filename, callees |-> {}, callers |-> {},
     lineno |-> lineno, end_lineno |-> end_lineno,
     is_called_only |-> is_called_only]

\* The constructor's assertion.
FunctionNodeAssertion(n) ==
    n.is_called_only => (n.lineno = None /\ n.end_lineno = None)

\* add_callee without the update of callee.callers.
add_callee_forwardOnly(ns, caller, callee) ==
    [ns EXCEPT ![caller].callees = @ \cup {callee}]

\* FunctionNode.add_callee on the registry ns: caller.add_callee(callee).
add_callee(ns, caller, callee) ==
    LET withCallee == [ns EXCEPT ![caller].callees = @ \cup {callee}]
    IN  [withCallee EXCEPT ![callee].callers = @ \cup {caller}]

----------------------------------------------------------------------------
(* CallGraphAnalyzer: the analyzer's fields are threaded through the visit *)
(* as a record st with the fields nodes, order, files_to_functions,        *)
(* imports, current_file, current_class, current_namespace, and the        *)
(* history resolutions: one entry per call that was given a name, with the *)
(* namespace and class it was met in, the name it resolved to and the key  *)
(* of the node the edge was linked to.                                     *)

\* CallGraphAnalyzer.is_test_function
is_test_function(func_name) ==
    \/ StartsWith(Chars(func_name), <<"t", "e", "s", "t", "_">>)
    \/ /\ StartsWith(Chars(func_name), <<"T", "e", "s", "t">>)
       /\ Chars(func_name)[1] \in UpperCase

push_node(st, node_name) ==
    [st EXCEPT !.current_namespace = Append(@, node_name)]

pop_node(st) ==
    [st EXCEPT !.current_namespace = DropLast(@, 1)]

get_namespace(st) == Join(st.current_namespace)

\* The first key, in dict order, that ends with "." + seg; None if there is none.
RECURSIVE FirstEndingWith(_, _)
FirstEndingWith(keys, seg) ==
    IF keys = <<>> THEN None
    ELSE IF EndsWithSegment(Head(keys), seg) THEN Some(Head(keys))
    ELSE FirstEndingWith(Tail(keys), seg)

resolve_direct_call(st, func_node) ==
    IF <<func_node.id>> \in DOMAIN st.imports
    THEN st.imports[<<func_node.id>>]
    ELSE IF func_node.id \in Builtins
    THEN <<"builtins", func_node.id>>
    ELSE IF \E k \in DOMAIN st.nodes : Len(k) > 1 /\ k[Len(k) - 1] = func_node.id
    THEN Dot(get_namespace(st), <<func_node.id, "__init__">>)
    ELSE Dot(get_namespace(st), <<func_node.id>>)

resolve_attribute_call(st, func_node) ==
    LET instance_name == func_node.value
        method_name == func_node.attr
        found == FirstEndingWith(st.order, instance_name)
    IN  IF <<instance_name>> \in DOMAIN st.imports
        THEN Dot(st.imports[<<instance_name>>], <<method_name>>)
        ELSE IF instance_name = "self" /\ st.current_class # None
        THEN Dot(Join(DropLast(st.current_namespace, 2)),
                 <<st.current_class[1], method_name>>)
        ELSE IF <<instance_name>> \in DOMAIN st.nodes
        THEN Dot(Join(DropLast(st.current_namespace, 1)), <<method_name>>)
        ELSE IF found # None
        THEN Dot(Join(DropLast(st.current_namespace, 1)),
                 <<found[1][Len(found[1]) - 1], method_name>>)
        ELSE Dot(Join(DropLast(st.current_namespace, 1)), <<method_name>>)

\* None when the callee cannot be named.
resolve_call_name(st, call_node) ==
    CASE call_node.func = "Name" -> Some(resolve_direct_call(st, call_node))
      [] call_node.func = "Attribute" -> Some(resolve_attribute_call(st, call_node))
      [] OTHER -> None

\* Returns the updated analyzer and the key of the node found or created.
get_or_create_called_node(st, called_name) ==
    LET existing == FirstEndingWith(st.order, called_name[Len(called_name)])
    IN  IF called_name \in DOMAIN st.nodes
        THEN [st |-> st, node |-> called_name]
        ELSE IF existing # None
        THEN [st |-> st, node |-> existing[1]]
        ELSE [st |-> [st EXCEPT
                        !.nodes = @ @@ (called_name :>
                            FunctionNode(called_name, BuiltinsFile, TRUE, None, None)),
                        !.order = Append(@, called_name)],
              node |-> called_name]

RECURSIVE analyze_function_calls(_, _, _)
analyze_function_calls(st, calls, current_node) ==
    IF calls = <<>> THEN st
    ELSE LET called_name == resolve_call_name(st, Head(calls))
             got == get_or_create_called_node(st, called_name[1])
             linked == [got.st EXCEPT
                          !.nodes = add_callee(@, current_node, got.node),
                          !.resolutions = Append(@,
                              [namespace |-> st.current_namespace,
                               class |-> st.current_class,
                               call |-> Head(calls),
                               resolved |-> called_name[1],
                               node |-> got.node])]
         IN  IF called_name = None
             THEN analyze_function_calls(st, Tail(calls), current_node)
             ELSE analyze_function_calls(linked, Tail(calls), current_node)

track_function_in_file(st, key) ==
    LET file == st.current_file[1]
        known == IF file \in DOMAIN st.files_to_functions
                 THEN st.files_to_functions
                 ELSE st.files_to_functions @@ (file :> <<>>)
    IN  [st EXCEPT !.files_to_functions = [known EXCEPT ![file] = Append(@, key)]]

\* get_or_create_function_node that replaces an existing node by a new one.
get_or_create_function_node_newNode(st, node) ==
    LET node_name == get_namespace(st)
    IN  IF node_name \notin DOMAIN st.nodes
        THEN track_function_in_file(
                 [st EXCEPT
                    !.nodes = @ @@ (node_name :>
                        FunctionNode(node_name, st.current_file[1], FALSE,
                                     Some(node.lineno), Some(node.end_lineno))),
                    !.order = Append(@, node_name)],
                 node_name)
        ELSE [st EXCEPT
                !.nodes[node_name] =
                    FunctionNode(node_name, st.current_file[1], FALSE,
                                 Some(node.lineno), Some(node.end_lineno))]

\* get_or_create_function_node whose update of an existing node leaves its
\* line numbers as they are.
get_or_create_function_node_noLines(st, node) ==
    LET node_name == get_namespace(st)
    IN  IF node_name \notin DOMAIN st.nodes
        THEN track_function_in_file(
                 [st EXCEPT
                    !.nodes = @ @@ (node_name :>
                        FunctionNode(node_name, st.current_file[1], FALSE,
                                     Some(node.lineno), Some(node.end_lineno))),
                    !.order = Append(@, node_name)],
                 node_name)
        ELSE [st EXCEPT
                !.nodes[node_name].is_called_only = FALSE,
                !.nodes[node_name].filename = st.current_file[1]]

\* Returns the updated analyzer; the node's key is get_namespace(st).
get_or_create_function_node(st, node) ==
    LET node_name == get_namespace(st)
    IN  IF node_name \notin DOMAIN st.nodes
        THEN track_function_in_file(
                 [st EXCEPT
                    !.nodes = @ @@ (node_name :>
                        FunctionNode(node_name, st.current_file[1], FALSE,
                                     Some(node.lineno), Some(node.end_lineno))),
                    !.order = Append(@, node_name)],
                 node_name)
        ELSE [st EXCEPT
                !.nodes[node_name].is_called_only = FALSE,
                !.nodes[node_name].filename = st.current_file[1],
                !.nodes[node_name].lineno = Some(node.lineno),
                !.nodes[node_name].end_lineno = Some(node.end_lineno)]

\* import name [as asname]: the table is keyed by the local name (its
\* segments; only a one-segment key can equal an identifier of a call).
visit_Import(st, node) ==
    LET local == IF node.asname # None THEN node.asname ELSE node.name
    IN  [st EXCEPT !.imports = (local :> node.name) @@ @]

\* from module import name [as asname]
visit_ImportFrom(st, node) ==
    LET local_name == IF node.asname # None THEN node.asname ELSE <<node.name>>
    IN  [st EXCEPT !.imports = (local_name :> Dot(node.module, <<node.name>>)) @@ @]

RECURSIVE visit(_, _)
RECURSIVE generic_visit(_, _)

visit_ClassDef(st, node) ==
    LET old_class == st.current_class
        entered == push_node([st EXCEPT !.current_class = Some(node.name)], node.name)
        left == pop_node(generic_visit(entered, node.body))
    IN  [left EXCEPT !.current_class = old_class]

visit_FunctionDef(st, node) ==
    IF is_test_function(node.name) THEN st
    ELSE LET pushed == push_node(st, node.name)
             created == get_or_create_function_node(pushed, node)
             analysed_calls == analyze_function_calls(created, WalkCalls(node),
                                                      get_namespace(pushed))
         IN  pop_node(generic_visit(analysed_calls, node.body))

visit(st, node) ==
    CASE node.type = "FunctionDef" -> visit_FunctionDef(st, node)
      [] node.type = "ClassDef" -> visit_ClassDef(st, node)
      [] node.type = "Import" -> visit_Import(st, node)
      [] node.type = "ImportFrom" -> visit_ImportFrom(st, node)

\* ast.NodeVisitor.generic_visit over the definitions and imports of a body.
generic_visit(st, body) ==
    IF body = <<>> THEN st
    ELSE generic_visit(visit(st, Head(body)), Tail(body))

visit_Module(st, body) ==
    pop_node(generic_visit(push_node(st, ModuleName(st.current_file[1])), body))

\* CallGraphAnalyzer.analyze_file, after the file is read and parsed to body.
analyze_file(st, file_path, body) ==
    visit_Module([st EXCEPT !.current_file = Some(file_path)], body)

\* The loop of analyze_repository over the files os.walk lists: done are
\* the files analysed so far.  ast.parse raises SyntaxError on a file that
\* does not parse, after current_file is set; nothing catches it.
RECURSIVE analyze_repository(_, _, _)
analyze_repository(st, files, done) ==
    IF files = <<>> THEN [st |-> st, analysed |-> done, raised |-> None]
    ELSE LET file == Head(files)
         IN  IF ~EndsWith(Chars(file.path.stem) \o Chars(file.path.ext),
                          <<".", "p", "y">>)
             THEN analyze_repository(st, Tail(files), done)
             ELSE IF is_test_file(file.path)
             THEN analyze_repository(st, Tail(files), done)
             ELSE IF ~file.parses
             THEN [st |-> [st EXCEPT !.current_file = Some(file.path)],
                   analysed |-> done, raised |-> Some("SyntaxError")]
             ELSE analyze_repository(analyze_file(st, file.path, file.body),
                                     Tail(files), Append(done, file))

\* find_unreachable_functions without the test on node.callers.
find_unreachable_functions_ignoringCallers(ns, keys) ==
    SelectSeq(keys, LAMBDA k :
        /\ ns[k].filename # BuiltinsFile
        /\ ~is_test_function(ns[k].name[Len(ns[k].name)]))

\* The keys of the nodes find_unreachable_functions returns, in dict order.
find_unreachable_functions(ns, keys) ==
    SelectSeq(keys, LAMBDA k :
        /\ ns[k].filename # BuiltinsFile
        /\ ns[k].callers = {}
        /\ ~is_test_function(ns[k].name[Len(ns[k].name)]))

----------------------------------------------------------------------------
(* The files of the analysed repositories *)

\* The calls f(), g(), len() of a set of callee names, in that order.
CallsOf(S) ==
    (IF "f" \in S THEN <<CallName("f")>> ELSE <<>>)
    \o (IF "g" \in S THEN <<CallName("g")>> ELSE <<>>)
    \o (IF "len" \in S THEN <<CallName("len")>> ELSE <<>>)

\* def f(): <calls cf>       def g(): <calls cg>
TwoFunctions(cf, cg) ==
    << FunctionDef("f", 1, 2, CallsOf(cf), <<>>),
       FunctionDef("g", 4, 5, CallsOf(cg), <<>>) >>

\* A second module m, in another directory, defining f and g again.
OtherM ==
    << FunctionDef("g", 7, 8, <<>>, <<>>),
       FunctionDef("f", 10, 12, <<CallName("g"), CallName("h")>>, <<>>) >>

\* The shopping-cart module of the analyzer's tests.
ShoppingCart ==
    << FunctionDef("price", 2, 3, <<>>, <<>>),
       ClassDef("Cart", <<
           FunctionDef("__init__", 6, 7, <<>>, <<>>),
           FunctionDef("add_item", 9, 11,
                       <<CallOther, CallAttribute("self", "total")>>, <<>>),
           FunctionDef("total", 13, 15,
                       <<CallName("sum"), CallName("price")>>, <<>>) >>),
       FunctionDef("run", 17, 20,
                   <<CallName("Cart"), CallAttribute("cart", "add_item")>>, <<>>) >>

\* a and b are leaves, h calls b, g calls h, f calls a and g: each callee is
\* defined before its caller.
Chain ==
    << FunctionDef("a", 1, 2, <<>>, <<>>),
       FunctionDef("b", 3, 4, <<>>, <<>>),
       FunctionDef("h", 5, 6, <<CallName("b")>>, <<>>),
       FunctionDef("g", 7, 8, <<CallName("h")>>, <<>>),
       FunctionDef("f", 9, 11, <<CallName("a"), CallName("g")>>, <<>>) >>

\* def h(): inner() with def inner(): len() nested in it, and a test function.
Nested ==
    << FunctionDef("h", 1, 4, <<CallName("inner")>>,
                   << FunctionDef("inner", 2, 3, <<CallName("len")>>, <<>>) >>),
       FunctionDef("test_f", 6, 7, <<CallName("h")>>, <<>>),
       FunctionDef("b", 9, 10, <<CallName("test_f")>>, <<>>) >>

\* from datetime import dt;  def a(): dt.now(); h()      def h(): a()
Imported ==
    << ImportFrom(<<"datetime">>, "dt", None),
       FunctionDef("a", 3, 5, <<CallAttribute("dt", "now"), CallName("h")>>, <<>>),
       FunctionDef("h", 7, 8, <<CallName("a")>>, <<>>) >>

\* def total(); class Cart with add_item, which calls self.total() itself and
\* in a function nested in it, and then the method total.
Methods ==
    << FunctionDef("total", 1, 2, <<>>, <<>>),
       ClassDef("Cart", <<
           FunctionDef("add_item", 5, 9, <<CallAttribute("self", "total")>>,
                       << FunctionDef("inner", 7, 8,
                                      <<CallAttribute("self", "total")>>, <<>>) >>),
           FunctionDef("total", 11, 12, <<>>, <<>>) >>) >>

\* class Cart alone: total, then add_item with the nested call of self.total().
MethodsNested ==
    << ClassDef("Cart", <<
           FunctionDef("total", 2, 3, <<>>, <<>>),
           FunctionDef("add_item", 5, 9, <<>>,
                       << FunctionDef("inner", 6, 8,
                                      <<CallAttribute("self", "total")>>, <<>>) >>) >>) >>

\* def Testing(); def TestCase(); def test_f(); def h(): Testing()
TestNames ==
    << FunctionDef("Testing", 1, 2, <<>>, <<>>),
       FunctionDef("TestCase", 4, 5, <<>>, <<>>),
       FunctionDef("test_f", 7, 8, <<>>, <<>>),
       FunctionDef("h", 10, 11, <<CallName("Testing")>>, <<>>) >>

\* import m;  from datetime import now as h;  def a(): m.f()
CrossModule ==
    << Import(<<"m">>, None),
       ImportFrom(<<"datetime">>, "now", Some("h")),
       FunctionDef("a", 3, 4, <<CallAttribute("m", "f")>>, <<>>) >>

Callees == {"f", "g", "len"}

\* A file: its path, whether ast.parse accepts its text, and the parsed
\* module body.
File(path, body) == [path |-> path, parses |-> TRUE, body |-> body]

\* A file whose text is not valid Python.
Unparseable(path) == [path |-> path, parses |-> FALSE, body |-> <<>>]

\* The files a run may meet.
Files ==
    { File(Path("a", "m", ".py"), TwoFunctions(cf, cg)) :
          cf \in SUBSET Callees, cg \in SUBSET Callees }
    \cup { File(Path("b", "m", ".py"), OtherM) }
    \cup { File(Path("a", "n", ".py"), b) :
          b \in {ShoppingCart, Chain, Nested, Imported, Methods, MethodsNested,
                  TestNames, CrossModule} }

----------------------------------------------------------------------------
(* TypeHintRemover: strings *)

\* s[i - 1] of Python: the i-th character of s.
Char(s, i) == SubSeq(s, i, i)

\* str.lstrip(), str.rstrip(), str.strip(): the texts hold no whitespace
\* other than the space and the line break.
RECURSIVE LStrip(_)
LStrip(s) ==
    IF s # "" /\ Char(s, 1) = " " THEN LStrip(SubSeq(s, 2, Len(s))) ELSE s

RECURSIVE RStrip(_)
RStrip(s) ==
    IF s # "" /\ Char(s, Len(s)) = " " THEN RStrip(SubSeq(s, 1, Len(s) - 1)) ELSE s

Strip(s) == LStrip(RStrip(s))

\* s.split("#")[0]
RECURSIVE SplitHash(_)
SplitHash(s) ==
    IF s = "" \/ Char(s, 1) = "#" THEN ""
    ELSE Char(s, 1) \o SplitHash(SubSeq(s, 2, Len(s)))

\* The while loop of lines_match with the pointers i and j (from 0).
RECURSIVE lines_match_loop(_, _, _, _)
lines_match_loop(proc_line, orig_line, i, j) ==
    IF i < Len(proc_line) /\ j < Len(orig_line)
    THEN LET i2 == IF Char(proc_line, i + 1) = Char(orig_line, j + 1)
                   THEN i + 1 ELSE i
             j2 == j + 1
         IN  IF j2 >= Len(orig_line) /\ i2 < Len(proc_line)
             THEN FALSE
             ELSE lines_match_loop(proc_line, orig_line, i2, j2)
    ELSE i = Len(proc_line)

\* lines_match that wants the processed content at the start of the
\* original content, character by character.
lines_match_prefixOnly(proc_line, orig_line) ==
    LET proc == Strip(SplitHash(proc_line))
        orig == Strip(SplitHash(orig_line))
    IN  IF proc = "" /\ orig = "" THEN TRUE
        ELSE IF orig = "" THEN FALSE
        ELSE Len(proc) <= Len(orig) /\ SubSeq(orig, 1, Len(proc)) = proc

\* TypeHintRemover.lines_match
lines_match(proc_line, orig_line) ==
    LET proc == Strip(SplitHash(proc_line))
        orig == Strip(SplitHash(orig_line))
    IN  IF proc = "" /\ orig = "" THEN TRUE
        ELSE IF orig = "" THEN FALSE
        ELSE lines_match_loop(proc, orig, 0, 0)

\* text.strip().splitlines() on the lines of text: the blank lines at both
\* ends go, and the blanks before the first and after the last character.
RECURSIVE DropBlankHead(_)
DropBlankHead(lines) ==
    IF lines # <<>> /\ Strip(Head(lines)) = "" THEN DropBlankHead(Tail(lines))
    ELSE lines

RECURSIVE DropBlankTail(_)
DropBlankTail(lines) ==
    IF lines # <<>> /\ Strip(lines[Len(lines)]) = ""
    THEN DropBlankTail(SubSeq(lines, 1, Len(lines) - 1))
    ELSE lines

strip_splitlines(lines) ==
    LET kept == DropBlankTail(DropBlankHead(lines))
    IN  [i \in 1..Len(kept) |->
            LET left == IF i = 1 THEN LStrip(kept[i]) ELSE kept[i]
            IN  IF i = Len(kept) THEN RStrip(left) ELSE left]

\* The inner while loop of map_original_to_processed_lines: the index (from
\* 0) of the first original line at or after orig_idx that matches, if any.
RECURSIVE scan_original(_, _, _)
scan_original(original_lines, proc_line, orig_idx) ==
    IF orig_idx < Len(original_lines)
    THEN IF lines_match(proc_line, original_lines[orig_idx + 1])
         THEN Some(orig_idx)
         ELSE scan_original(original_lines, proc_line, orig_idx + 1)
    ELSE None

\* The for loop of map_original_to_processed_lines from processed line
\* proc_idx on; raised holds the line of the ValueError.
RECURSIVE map_lines_loop(_, _, _, _, _)
map_lines_loop(processed_lines, original_lines, proc_idx, orig_idx, line_mapping) ==
    IF proc_idx > Len(processed_lines)
    THEN [raised |-> None, returned |-> Some(line_mapping)]
    ELSE LET found == scan_original(original_lines, processed_lines[proc_idx],
                                    orig_idx)
         IN  IF found = None
             THEN [raised |-> Some(processed_lines[proc_idx]), returned |-> None]
             ELSE map_lines_loop(processed_lines, original_lines, proc_idx + 1,
                                 found[1] + 1,
                                 ((found[1] + 1) :> proc_idx) @@ line_mapping)

\* The loop that does not move the pointer past a matched original line.
RECURSIVE map_lines_loop_noAdvance(_, _, _, _, _)
map_lines_loop_noAdvance(processed_lines, original_lines, proc_idx, orig_idx,
                         line_mapping) ==
    IF proc_idx > Len(processed_lines)
    THEN [raised |-> None, returned |-> Some(line_mapping)]
    ELSE LET found == scan_original(original_lines, processed_lines[proc_idx],
                                    orig_idx)
         IN  IF found = None
             THEN [raised |-> Some(processed_lines[proc_idx]), returned |-> None]
             ELSE map_lines_loop_noAdvance(processed_lines, original_lines,
                                           proc_idx + 1, found[1],
                                           ((found[1] + 1) :> proc_idx) @@ line_mapping)

\* The loop that tries the original line at the pointer only.
RECURSIVE map_lines_loop_noScan(_, _, _, _, _)
map_lines_loop_noScan(processed_lines, original_lines, proc_idx, orig_idx,
                      line_mapping) ==
    IF proc_idx > Len(processed_lines)
    THEN [raised |-> None, returned |-> Some(line_mapping)]
    ELSE IF /\ orig_idx < Len(original_lines)
            /\ lines_match(processed_lines[proc_idx], original_lines[orig_idx + 1])
    THEN map_lines_loop_noScan(processed_lines, original_lines, proc_idx + 1,
                               orig_idx + 1,
                               ((orig_idx + 1) :> proc_idx) @@ line_mapping)
    ELSE [raised |-> Some(processed_lines[proc_idx]), returned |-> None]

map_original_to_processed_lines_noAdvance(original_source, processed_source) ==
    map_lines_loop_noAdvance(strip_splitlines(processed_source),
                             strip_splitlines(original_source), 1, 0, <<>>)

map_original_to_processed_lines_noScan(original_source, processed_source) ==
    map_lines_loop_noScan(strip_splitlines(processed_source),
                          strip_splitlines(original_source), 1, 0, <<>>)

\* TypeHintRemover.map_original_to_processed_lines: the dict it returns, or
\* the ValueError it raises.
map_original_to_processed_lines(original_source, processed_source) ==
    map_lines_loop(strip_splitlines(processed_source),
                   strip_splitlines(original_source), 1, 0, <<>>)

\* " " * n
RECURSIVE Spaces(_)
Spaces(n) == IF n = 0 THEN "" ELSE " " \o Spaces(n - 1)

\* TypeHintRemover.get_comments on the lines of source, which hold no '#'
\* inside a string: the COMMENT token of a line runs from its first '#' to
\* its end, and only blanks before it make the comment standalone.
get_comments(source) ==
    [line_no \in { i \in 1..Len(source) : SplitHash(source[i]) # source[i] } |->
        LET col_offset == Len(SplitHash(source[line_no]))
            token == SubSeq(source[line_no], col_offset + 1, Len(source[line_no]))
            is_standalone == Strip(SplitHash(source[line_no])) = ""
            whitespace_prefix == IF is_standalone THEN Spaces(col_offset) ELSE " "
        IN  [comment_text |-> whitespace_prefix \o token,
             is_standalone |-> is_standalone]]

\* merge_comments that adds no empty line for an original line without a
\* mapping and without a standalone comment.
merge_comments_compact(processed_source, original_source, comments) ==
    LET aligned == map_original_to_processed_lines(original_source,
                                                   processed_source)
        orig_to_proc == aligned.returned[1]
        processed_lines == strip_splitlines(processed_source)
        original_lines == strip_splitlines(original_source)
        kept == SelectSeq([k \in 1..Len(original_lines) |-> k],
                          LAMBDA k : \/ k \in DOMAIN orig_to_proc
                                     \/ /\ k \in DOMAIN comments
                                        /\ comments[k].is_standalone)
        result_lines ==
            [i \in 1..Len(kept) |->
                IF kept[i] \in DOMAIN orig_to_proc
                THEN IF /\ kept[i] \in DOMAIN comments
                        /\ ~comments[kept[i]].is_standalone
                     THEN processed_lines[orig_to_proc[kept[i]]]
                              \o comments[kept[i]].comment_text
                     ELSE processed_lines[orig_to_proc[kept[i]]]
                ELSE comments[kept[i]].comment_text]
    IN  IF aligned.raised # None
        THEN [raised |-> aligned.raised, returned |-> None, orig_to_proc |-> None]
        ELSE [raised |-> None, returned |-> Some(result_lines),
              orig_to_proc |-> aligned.returned]

\* TypeHintRemover.merge_comments: the lines it joins and returns, or the
\* ValueError of the aligner; orig_to_proc is the aligner's dict.
merge_comments(processed_source, original_source, comments) ==
    LET aligned == map_original_to_processed_lines(original_source,
                                                   processed_source)
        orig_to_proc == aligned.returned[1]
        processed_lines == strip_splitlines(processed_source)
        original_lines == strip_splitlines(original_source)
        result_lines ==
            [orig_line_no \in 1..Len(original_lines) |->
                IF orig_line_no \in DOMAIN orig_to_proc
                THEN IF /\ orig_line_no \in DOMAIN comments
                        /\ ~comments[orig_line_no].is_standalone
                     THEN processed_lines[orig_to_proc[orig_line_no]]
                              \o comments[orig_line_no].comment_text
                     ELSE processed_lines[orig_to_proc[orig_line_no]]
                ELSE IF /\ orig_line_no \in DOMAIN comments
                        /\ comments[orig_line_no].is_standalone
                     THEN comments[orig_line_no].comment_text
                     ELSE ""]
    IN  IF aligned.raised # None
        THEN [raised |-> aligned.raised, returned |-> None, orig_to_proc |-> None]
        ELSE [raised |-> None, returned |-> Some(result_lines),
              orig_to_proc |-> aligned.returned]

----------------------------------------------------------------------------
(* TypeHintRemover: source files.  A source file is held as its style and  *)
(* the items of its body, one per line, a compound statement with the      *)
(* items of its own body:                                                  *)
(*   [type |-> "Assign", target, value, comment]                           *)
(*   [type |-> "AnnAssign", target, annotation, value, comment]            *)
(*   [type |-> "Pass", comment]                                            *)
(*   [type |-> "FunctionDef" | "AsyncFunctionDef", name, args, returns,    *)
(*    body, comment]                                                       *)
(*   [type |-> "ClassDef", name, body, comment]                            *)
(*   [type |-> "Comment", indent, text]    a line with a comment only      *)
(*   [type |-> "Blank"]                    a blank line                    *)
(* comment is the inline comment of the line, if any; a value is written   *)
(* as src in the file and as canon by ast.unparse.  The syntax tree of the *)
(* file is the same body without the Comment and Blank items, the inline   *)
(* comments and the spelling of the values.                                *)

Value(src, canon) == [src |-> src, canon |-> canon]

Assign(target, value, comment) ==
    [type |-> "Assign", target |-> target, value |-> value, comment |-> comment]

AnnAssign(target, annotation, value, comment) ==
    [type |-> "AnnAssign", target |-> target, annotation |-> annotation,
     value |-> value, comment |-> comment]

Pass(comment) == [type |-> "Pass", comment |-> comment]

\* ast.arg
Arg(arg, annotation) == [arg |-> arg, annotation |-> annotation]

\* ast.arguments, without defaults
Arguments(posonlyargs, args, vararg, kwonlyargs, kwarg) ==
    [posonlyargs |-> posonlyargs, args |-> args, vararg |-> vararg,
     kwonlyargs |-> kwonlyargs, kwarg |-> kwarg]

\* def or async def
Def(type, name, args, returns, body, comment) ==
    [type |-> type, name |-> name, args |-> args, returns |-> returns,
     body |-> body, comment |-> comment]

Class(name, body, comment) ==
    [type |-> "ClassDef", name |-> name, body |-> body, comment |-> comment]

CommentLine(indent, text) == [type |-> "Comment", indent |-> indent, text |-> text]

BlankLine == [type |-> "Blank"]

IsCompound(node) == node.type \in {"FunctionDef", "AsyncFunctionDef", "ClassDef"}

\* ", ".join(pieces)
RECURSIVE JoinComma(_)
JoinComma(pieces) ==
    IF pieces = <<>> THEN ""
    ELSE IF Len(pieces) = 1 THEN pieces[1]
    ELSE pieces[1] \o ", " \o JoinComma(Tail(pieces))

ParamText(a) ==
    a.arg \o (IF a.annotation # None THEN ": " \o a.annotation[1] ELSE "")

\* The parameter list of a def, as written and as ast.unparse writes it.
ArgumentsText(a) ==
    JoinComma(
        [i \in 1..Len(a.posonlyargs) |-> ParamText(a.posonlyargs[i])]
        \o (IF a.posonlyargs # <<>> THEN <<"/">> ELSE <<>>)
        \o [i \in 1..Len(a.args) |-> ParamText(a.args[i])]
        \o (IF a.vararg # None THEN <<"*" \o ParamText(a.vararg[1])>>
            ELSE IF a.kwonlyargs # <<>> THEN <<"*">> ELSE <<>>)
        \o [i \in 1..Len(a.kwonlyargs) |-> ParamText(a.kwonlyargs[i])]
        \o (IF a.kwarg # None THEN <<"**" \o ParamText(a.kwarg[1])>> ELSE <<>>))

\* The text of a statement's own line; written is TRUE for the file as
\* written and FALSE for the output of ast.unparse.
StatementText(node, written) ==
    CASE node.type = "Assign" ->
            node.target \o " = "
            \o (IF written THEN node.value.src ELSE node.value.canon)
      [] node.type = "AnnAssign" ->
            node.target \o ": " \o node.annotation
            \o (IF node.value = None THEN ""
                ELSE " = " \o (IF written THEN node.value[1].src
                               ELSE node.value[1].canon))
      [] node.type = "Pass" -> "pass"
      [] node.type \in {"FunctionDef", "AsyncFunctionDef"} ->
            (IF node.type = "AsyncFunctionDef" THEN "async def " ELSE "def ")
            \o node.name \o "(" \o ArgumentsText(node.args) \o ")"
            \o (IF node.returns # None THEN " -> " \o node.returns[1] ELSE "")
            \o ":"
      [] node.type = "ClassDef" -> "class " \o node.name \o ":"

\* The lines of the file: style gives the width of an indentation level,
\* the blanks before an inline comment and the text of a blank line.
RECURSIVE SourceLines(_, _, _)
SourceLines(body, level, style) ==
    IF body = <<>> THEN <<>>
    ELSE LET node == Head(body)
             own == CASE node.type = "Blank" -> <<style.blank>>
                      [] node.type = "Comment" ->
                            <<Spaces(node.indent) \o node.text>>
                      [] OTHER ->
                            <<Spaces(level * style.indent)
                              \o StatementText(node, TRUE)
                              \o (IF node.comment # None
                                  THEN Spaces(style.gap) \o node.comment[1]
                                  ELSE "")>>
                            \o (IF IsCompound(node)
                                THEN SourceLines(node.body, level + 1, style)
                                ELSE <<>>)
         IN  own \o SourceLines(Tail(body), level, style)

\* ast.parse of the file: the statements, without the layout.
RECURSIVE Parse(_)
Parse(body) ==
    IF body = <<>> THEN <<>>
    ELSE LET node == Head(body)
             tree ==
               CASE node.type \in {"Blank", "Comment"} -> <<>>
                 [] node.type = "Assign" ->
                       <<Assign(node.target,
                                Value(node.value.canon, node.value.canon), None)>>
                 [] node.type = "AnnAssign" ->
                       <<AnnAssign(node.target, node.annotation,
                                   IF node.value = None THEN None
                                   ELSE Some(Value(node.value[1].canon,
                                                   node.value[1].canon)),
                                   None)>>
                 [] node.type = "Pass" -> <<Pass(None)>>
                 [] node.type = "ClassDef" ->
                       <<Class(node.name, Parse(node.body), None)>>
                 [] OTHER ->
                       <<Def(node.type, node.name, node.args, node.returns,
                             Parse(node.body), None)>>
         IN  tree \o Parse(Tail(body))

\* The annotations of a list of ast.arg set to None.
ClearAnnotations(args) == [i \in 1..Len(args) |-> Arg(args[i].arg, None)]

RECURSIVE remover_visit(_)
RECURSIVE remover_generic_visit(_)

\* TypeHintRemover.visit_FunctionDef
remover_visit_FunctionDef(node) ==
    LET cleared == [node EXCEPT
                      !.returns = None,
                      !.args.args = ClearAnnotations(@),
                      !.args.kwonlyargs = ClearAnnotations(@),
                      !.args.posonlyargs = ClearAnnotations(@)]
    IN  Some([cleared EXCEPT !.body = remover_generic_visit(@)])

\* TypeHintRemover.visit_AnnAssign: None removes the statement.
remover_visit_AnnAssign(node) ==
    IF node.value = None THEN None
    ELSE Some(Assign(node.target, node.value[1], None))

\* ast.NodeVisitor.visit on a statement: the visit_<type> method of the
\* remover if it has one, generic_visit if not.
remover_visit(node) ==
    CASE node.type = "FunctionDef" -> remover_visit_FunctionDef(node)
      [] node.type = "AnnAssign" -> remover_visit_AnnAssign(node)
      [] node.type \in {"AsyncFunctionDef", "ClassDef"} ->
            Some([node EXCEPT !.body = remover_generic_visit(@)])
      [] OTHER -> Some(node)

\* ast.NodeTransformer.generic_visit on the statements of a body.
remover_generic_visit(body) ==
    IF body = <<>> THEN <<>>
    ELSE remover_visit(Head(body)) \o remover_generic_visit(Tail(body))

\* ast.unparse of a body: four blanks per level, and an empty line before a
\* def or class unless nothing is written yet (started is FALSE).
RECURSIVE Unparse(_, _, _)
Unparse(body, level, started) ==
    IF body = <<>> THEN <<>>
    ELSE LET node == Head(body)
             own == (IF IsCompound(node) /\ started THEN <<"">> ELSE <<>>)
                    \o <<Spaces(4 * level) \o StatementText(node, FALSE)>>
                    \o (IF IsCompound(node)
                        THEN Unparse(node.body, level + 1, TRUE) ELSE <<>>)
         IN  own \o Unparse(Tail(body), level, TRUE)

\* TypeHintRemover.process_file_contents on the text of a source file.
process_file_contents(file) ==
    LET original_source == strip_splitlines(SourceLines(file.body, 0, file.style))
        tree == Parse(file.body)
        modified_tree == remover_generic_visit(tree)
        processed_source == Unparse(modified_tree, 0, FALSE)
        comments == get_comments(original_source)
        final_source == merge_comments(processed_source, original_source, comments)
    IN  [method |-> "process_file_contents",
         file |-> file,
         original_source |-> original_source,
         modified_tree |-> modified_tree,
         processed_source |-> processed_source,
         comments |-> comments,
         orig_to_proc |-> final_source.orig_to_proc,
         raised |-> final_source.raised,
         returned |-> final_source.returned]

----------------------------------------------------------------------------
(* The annotation collector (TypeHintCollector): the pass that strips the  *)
(* annotations and records them in the annotation tables functions,        *)
(* parameters and variables, each keyed by qualified name (the segments of *)
(* the dotted name).  stack is the namespace of the collector.             *)

\* The fixed module name that seeds the namespace of a file.
ModuleSeed == <<"<module>">>

EmptyTables == [functions |-> <<>>, parameters |-> <<>>, variables |-> <<>>]

\* Every parameter of a def in the order of the parameter list.
Params(args) ==
    args.posonlyargs \o args.args \o args.vararg \o args.kwonlyargs \o args.kwarg

\* collect_params that keeps the entry a key has already.
RECURSIVE collect_params_keepFirst(_, _, _)
collect_params_keepFirst(params, scope, tables) ==
    IF params = <<>> THEN tables
    ELSE LET param == Head(params)
             stored == IF param.annotation = None THEN tables
                       ELSE [tables EXCEPT !.parameters =
                                @ @@ (Dot(scope, <<param.arg>>) :> param.annotation[1])]
         IN  collect_params_keepFirst(Tail(params), scope, stored)

\* On leaving each parameter of the def named by scope: an annotation is
\* stored into parameters[scope.param].
RECURSIVE collect_params(_, _, _)
collect_params(params, scope, tables) ==
    IF params = <<>> THEN tables
    ELSE LET param == Head(params)
             stored == IF param.annotation = None THEN tables
                       ELSE [tables EXCEPT !.parameters =
                                (Dot(scope, <<param.arg>>) :> param.annotation[1]) @@ @]
         IN  collect_params(Tail(params), scope, stored)

\* The arguments of a def with every annotation stripped.
StripArguments(args) ==
    Arguments(ClearAnnotations(args.posonlyargs), ClearAnnotations(args.args),
              ClearAnnotations(args.vararg), ClearAnnotations(args.kwonlyargs),
              ClearAnnotations(args.kwarg))

\* The pass over the statements of a body: the rewritten body and the
\* tables.  A def or class pushes its name for its parameters and body; a
\* return annotation is stored on leaving the def; an annotated assignment
\* becomes a plain one, of the literal None when it had no value.
RECURSIVE collect_body(_, _, _)
collect_body(body, stack, tables) ==
    IF body = <<>> THEN [body |-> <<>>, tables |-> tables]
    ELSE LET node == Head(body)
             scope == Append(stack, node.name)
             done ==
               CASE node.type \in {"FunctionDef", "AsyncFunctionDef"} ->
                      LET inner == collect_body(node.body, scope,
                                       collect_params(Params(node.args), scope, tables))
                      IN  [body |-> <<Def(node.type, node.name,
                                          StripArguments(node.args), None,
                                          inner.body, None)>>,
                           tables |-> IF node.returns = None THEN inner.tables
                                      ELSE [inner.tables EXCEPT !.functions =
                                               (scope :> node.returns[1]) @@ @]]
                 [] node.type = "ClassDef" ->
                      LET inner == collect_body(node.body, scope, tables)
                      IN  [body |-> <<Class(node.name, inner.body, None)>>,
                           tables |-> inner.tables]
                 [] node.type = "AnnAssign" ->
                      [body |-> <<Assign(node.target,
                                         IF node.value = None
                                         THEN Value("None", "None")
                                         ELSE node.value[1],
                                         None)>>,
                       tables |-> [tables EXCEPT !.variables =
                                      (Dot(stack, <<node.target>>) :> node.annotation) @@ @]]
                 [] OTHER -> [body |-> <<node>>, tables |-> tables]
             rest == collect_body(Tail(body), stack, done.tables)
         IN  [body |-> done.body \o rest.body, tables |-> rest.tables]

\* The characters of the lines given to lines_match.
LineChars == {"a", "b", " ", "#"}

\* The strings over LineChars of length n or less.
RECURSIVE Strings(_)
Strings(n) ==
    IF n = 0 THEN {""}
    ELSE Strings(n - 1) \cup { s \o c : s \in Strings(n - 1), c \in LineChars }

\* The lines of the original texts given to the aligner: code with and
\* without an annotation and an inline comment, a comment line, a blank line.
OriginalLines == {"", "x = 1", "x: int = 1  # c", "  # s", "y: int  # d"}

\* The lines of the processed texts given to the aligner.
ProcessedLines == {"", "x = 1", "z = 2"}

\* The texts of n lines or less, each line from lines.
RECURSIVE Texts(_, _)
Texts(lines, n) ==
    IF n = 0 THEN {<<>>}
    ELSE Texts(lines, n - 1)
         \cup { Append(t, l) : t \in Texts(lines, n - 1), l \in lines }

\* The values assigned: a number and a string in either quotes.
Values == {Value("1", "1"), Value("\"a\"", "'a'"), Value("'a'", "'a'")}

InlineComments == {None, Some("# c")}

\* The lines of a body that are not compound statements.
SimpleItems ==
    { Assign("x", v, c) : v \in Values, c \in InlineComments }
    \cup { AnnAssign("y", "int", v, c) :
               v \in {None, Some(Value("1", "1"))}, c \in InlineComments }
    \cup { CommentLine(0, "# s"), CommentLine(4, "# s"), BlankLine }

\* The layout ast.unparse itself writes, and a looser one.
Canonical == [indent |-> 4, gap |-> 1, blank |-> ""]

Styles == {Canonical, [indent |-> 2, gap |-> 2, blank |-> "  "]}

\* No parameter, one parameter without annotation, one annotated parameter.
ArgLists(name) == {<<>>, <<Arg(name, None)>>, <<Arg(name, Some("int"))>>}

ArgOptions(name) == {None, Some(Arg(name, None)), Some(Arg(name, Some("int")))}

\* def f(...) and async def f(...) with every combination of parameter
\* kinds and annotations, and the body pass.
Signatures ==
    { Def(type, "f", Arguments(posonlyargs, args, vararg, kwonlyargs, kwarg),
          returns, <<Pass(None)>>, None) :
          type \in {"FunctionDef", "AsyncFunctionDef"},
          posonlyargs \in ArgLists("p"), args \in ArgLists("a"),
          vararg \in ArgOptions("args"), kwonlyargs \in ArgLists("k"),
          kwarg \in ArgOptions("kwargs"), returns \in {None, Some("int")} }

\* The lines of the bodies of compound statements.
SuiteItems ==
    { Assign("x", Value("1", "1"), None),
      AnnAssign("y", "int", None, None),
      AnnAssign("y", "int", Some(Value("1", "1")), Some("# c")),
      CommentLine(4, "# s"),
      BlankLine }

\* The bodies of compound statements: at least one statement.
Suites ==
    { b \in Texts(SuiteItems, MaxItems) :
          \E i \in 1..Len(b) : b[i].type \notin {"Comment", "Blank"} }

Compounds ==
    { Def(type, "f", Arguments(<<>>, <<>>, None, <<>>, None), None, b, None) :
          type \in {"FunctionDef", "AsyncFunctionDef"}, b \in Suites }
    \cup { Class("A", b, None) : b \in Suites }

\* The source files given to process_file_contents: simple statements,
\* comments and blank lines; one def; a compound statement alone or after
\* a statement, a comment, a blank line, or a statement and a comment.
SourceFiles ==
    { [style |-> style, body |-> b] :
          style \in Styles, b \in Texts(SimpleItems, MaxItems) }
    \cup { [style |-> Canonical, body |-> <<d>>] : d \in Signatures }
    \cup { [style |-> style, body |-> before \o <<c>>] :
               style \in Styles, c \in Compounds,
               before \in {<<>>, <<Assign("x", Value("1", "1"), None)>>,
                           <<CommentLine(0, "# s")>>, <<BlankLine>>,
                           <<Assign("x", Value("1", "1"), None),
                             CommentLine(0, "# s")>>} }

\* def f(a) and def g(a), each with or without an annotation of a and a
\* return annotation, int or str.
AnnotatedDefs ==
    { Def("FunctionDef", name, Arguments(<<>>, <<Arg("a", annotation)>>, None, <<>>, None),
          returns, <<Pass(None)>>, None) :
          name \in {"f", "g"},
          annotation \in {None, Some("int"), Some("str")},
          returns \in {None, Some("int"), Some("str")} }

\* The files given to the collector: a def, a def after another, a def in
\* a class and a def after it, a def of each signature, and the bodies of
\* simple statements.
CollectorFiles ==
    { <<d>> : d \in AnnotatedDefs }
    \cup { <<d1, d2>> : d1, d2 \in AnnotatedDefs }
    \cup { <<Class("A", <<d1>>, None), d2>> : d1, d2 \in AnnotatedDefs }
    \cup { <<d>> : d \in Signatures }
    \cup { Parse(b) : b \in Texts(SimpleItems, MaxItems) }

----------------------------------------------------------------------------
(* The state machine *)

\* The analyzer's fields as the record the visit threads through.
Analyzer ==
    [nodes |-> nodes, order |-> order, files_to_functions |-> files_to_functions,
     imports |-> imports, current_file |-> current_file,
     current_class |-> current_class, current_namespace |-> current_namespace,
     resolutions |-> resolutions]

\* All orders in which a set can be iterated.
Perms(S) ==
    { p \in [1..Cardinality(S) -> S] : \A i, j \in 1..Cardinality(S) :
          i # j => p[i] # p[j] }

\* The file sets of the scanned repositories: two modules and a file that
\* does not parse; a module, a test directory and a text file; a module and
\* test files of each naming pattern; a module and a directory Tests.
RepositoryFiles ==
    { { File(Path("a", "n", ".py"), Chain),
        Unparseable(Path("a", "bad", ".py")),
        File(Path("b", "m", ".py"), OtherM) },
      { File(Path("a", "n", ".py"), Nested),
        File(Path("tests", "m", ".py"), TwoFunctions({"g"}, {})),
        File(Path("a", "notes", ".txt"), <<>>) },
      { File(Path("b", "m", ".py"), OtherM),
        File(Path("a", "test_m", ".py"), TwoFunctions({}, {"f"})),
        File(Path("a", "m_test", ".py"), TwoFunctions({"len"}, {})),
        Unparseable(Path("Test", "bad", ".py")) },
      { File(Path("a", "n", ".py"), TestNames),
        File(Path("Tests", "m", ".py"), TwoFunctions({}, {})) } }

\* A repository as os.walk lists it: its files in any order.
Repositories == UNION { Perms(S) : S \in RepositoryFiles }

\* CallGraphAnalyzer.__init__; no walker yet.
Init ==
    /\ nodes = <<>>
    /\ order = <<>>
    /\ files_to_functions = <<>>
    /\ imports = <<>>
    /\ current_file = None
    /\ current_class = None
    /\ current_namespace = <<>>
    /\ analysed = <<>>
    /\ resolutions = <<>>
    /\ repository_scan = None
    /\ unreachable = None
    /\ w_state = "none"
    /\ visited = {}
    /\ leaf_nodes = <<>>
    /\ initial_leaf_nodes = <<>>
    /\ yielded = <<>>
    /\ pops = 0
    /\ remover_call = None

\* analyzer.analyze_file(file.path), each file once, while the graph is
\* being built file by file (no repository scan in the run).
AnalyzeFile ==
    /\ w_state = "none"
    /\ repository_scan = None
    /\ Len(analysed) < MaxAnalyses
    /\ \E file \in Files :
         /\ \A i \in 1..Len(analysed) : analysed[i].path # file.path
         /\ LET st == analyze_file(Analyzer, file.path, file.body)
            IN  /\ nodes' = st.nodes
                /\ order' = st.order
                /\ files_to_functions' = st.files_to_functions
                /\ imports' = st.imports
                /\ current_file' = st.current_file
                /\ current_class' = st.current_class
                /\ current_namespace' = st.current_namespace
                /\ resolutions' = st.resolutions
         /\ analysed' = Append(analysed, file)
    /\ UNCHANGED repository_scan
    /\ unreachable' = None
    /\ UNCHANGED <<walkerVars, remover_call>>

\* analyzer.analyze_repository(repo_path) on the new analyzer.
AnalyzeRepository ==
    /\ w_state = "none"
    /\ analysed = <<>>
    /\ repository_scan = None
    /\ \E files \in Repositories :
         LET scan == analyze_repository(Analyzer, files, <<>>)
         IN  /\ nodes' = scan.st.nodes
             /\ order' = scan.st.order
             /\ files_to_functions' = scan.st.files_to_functions
             /\ imports' = scan.st.imports
             /\ current_file' = scan.st.current_file
             /\ current_class' = scan.st.current_class
             /\ current_namespace' = scan.st.current_namespace
             /\ resolutions' = scan.st.resolutions
             /\ analysed' = scan.analysed
             /\ repository_scan' = Some([files |-> files, raised |-> scan.raised])
    /\ unreachable' = None
    /\ UNCHANGED <<walkerVars, remover_call>>

\* analyzer.find_unreachable_functions() on the graph built so far.
FindUnreachable ==
    /\ w_state = "none"
    /\ unreachable = None
    /\ unreachable' = Some(find_unreachable_functions(nodes, order))
    /\ UNCHANGED <<builderVars, remover_call, walkerVars>>

\* __init__ that queues every node of the registry.
GetWalker_allNodes ==
    /\ w_state = "none"
    /\ w_state' = "idle"
    /\ visited' = {}
    /\ leaf_nodes' = order
    /\ initial_leaf_nodes' = leaf_nodes'
    /\ UNCHANGED <<builderVars, remover_call, unreachable, yielded, pops>>

\* __init__ that leaves the called-only nodes out of the queue.
GetWalker_definedLeavesOnly ==
    /\ w_state = "none"
    /\ w_state' = "idle"
    /\ visited' = {}
    /\ leaf_nodes' = SelectSeq(order, LAMBDA k :
                          nodes[k].callees = {} /\ ~nodes[k].is_called_only)
    /\ initial_leaf_nodes' = leaf_nodes'
    /\ UNCHANGED <<builderVars, remover_call, unreachable, yielded, pops>>

\* CallGraphWalker.__init__ (analyzer.get_walker()) on the finished graph.
GetWalker ==
    /\ w_state = "none"
    /\ w_state' = "idle"
    /\ visited' = {}
    /\ leaf_nodes' = SelectSeq(order, LAMBDA k : nodes[k].callees = {})
    /\ initial_leaf_nodes' = leaf_nodes'
    /\ UNCHANGED <<builderVars, remover_call, unreachable, yielded, pops>>

\* The loop iteration without the is_called_only test: every popped node
\* is marked visited and yielded.
NextPop_yieldsCalledOnly ==
    /\ w_state = "idle"
    /\ leaf_nodes # <<>>
    /\ LET current == Head(leaf_nodes)
       IN  IF current \in visited
           THEN /\ leaf_nodes' = Tail(leaf_nodes)
                /\ UNCHANGED <<visited, yielded>>
           ELSE /\ \E callers \in Perms(nodes[current].callers) :
                      leaf_nodes' = Tail(leaf_nodes) \o callers
                /\ visited' = visited \cup {current}
                /\ yielded' = Append(yielded, current)
    /\ pops' = pops + 1
    /\ UNCHANGED <<builderVars, remover_call, unreachable, w_state, initial_leaf_nodes>>

\* The loop iteration without the skip of visited nodes.
NextPop_noVisitedCheck ==
    /\ w_state = "idle"
    /\ leaf_nodes # <<>>
    /\ LET current == Head(leaf_nodes)
       IN  /\ \E callers \in Perms(nodes[current].callers) :
                 leaf_nodes' = Tail(leaf_nodes) \o callers
           /\ IF ~nodes[current].is_called_only
              THEN /\ visited' = visited \cup {current}
                   /\ yielded' = Append(yielded, current)
              ELSE UNCHANGED <<visited, yielded>>
    /\ pops' = pops + 1
    /\ UNCHANGED <<builderVars, remover_call, unreachable, w_state, initial_leaf_nodes>>

\* The loop iteration that drops a called-only node without queueing its
\* callers.
NextPop_dropsCalledOnly ==
    /\ w_state = "idle"
    /\ leaf_nodes # <<>>
    /\ LET current == Head(leaf_nodes)
       IN  IF current \in visited \/ nodes[current].is_called_only
           THEN /\ leaf_nodes' = Tail(leaf_nodes)
                /\ UNCHANGED <<visited, yielded>>
           ELSE /\ \E callers \in Perms(nodes[current].callers) :
                      leaf_nodes' = Tail(leaf_nodes) \o callers
                /\ visited' = visited \cup {current}
                /\ yielded' = Append(yielded, current)
    /\ pops' = pops + 1
    /\ UNCHANGED <<builderVars, remover_call, unreachable, w_state, initial_leaf_nodes>>

\* The loop iteration with the callers put at the front of the queue.
NextPop_callersFirst ==
    /\ w_state = "idle"
    /\ leaf_nodes # <<>>
    /\ LET current == Head(leaf_nodes)
       IN  IF current \in visited
           THEN /\ leaf_nodes' = Tail(leaf_nodes)
                /\ UNCHANGED <<visited, yielded>>
           ELSE /\ \E callers \in Perms(nodes[current].callers) :
                      leaf_nodes' = callers \o Tail(leaf_nodes)
                /\ IF ~nodes[current].is_called_only
                   THEN /\ visited' = visited \cup {current}
                        /\ yielded' = Append(yielded, current)
                   ELSE UNCHANGED <<visited, yielded>>
    /\ pops' = pops + 1
    /\ UNCHANGED <<builderVars, remover_call, unreachable, w_state, initial_leaf_nodes>>

\* One iteration of the while loop of CallGraphWalker.__next__; callers is a
\* set, extend() takes its elements in the set's iteration order, any order.
NextPop ==
    /\ w_state = "idle"
    /\ leaf_nodes # <<>>
    /\ LET current == Head(leaf_nodes)
       IN  IF current \in visited
           THEN /\ leaf_nodes' = Tail(leaf_nodes)
                /\ UNCHANGED <<visited, yielded>>
           ELSE /\ \E callers \in Perms(nodes[current].callers) :
                      leaf_nodes' = Tail(leaf_nodes) \o callers
                /\ IF ~nodes[current].is_called_only
                   THEN /\ visited' = visited \cup {current}
                        /\ yielded' = Append(yielded, current)
                   ELSE UNCHANGED <<visited, yielded>>
    /\ pops' = pops + 1
    /\ UNCHANGED <<builderVars, remover_call, unreachable, w_state, initial_leaf_nodes>>

\* The loop ends on the empty queue: __next__ raises StopIteration.
NextStop ==
    /\ w_state = "idle"
    /\ leaf_nodes = <<>>
    /\ w_state' = "stopped"
    /\ UNCHANGED <<builderVars, remover_call, unreachable, visited, leaf_nodes,
                   initial_leaf_nodes, yielded, pops>>

Next ==
    \/ AnalyzeFile
    \/ AnalyzeRepository
    \/ FindUnreachable
    \/ GetWalker
    \/ NextPop
    \/ NextStop

Spec == Init /\ [][Next]_vars

\* remover.lines_match(proc_line, orig_line)
LinesMatch ==
    /\ remover_call = None
    /\ \E proc_line, orig_line \in Strings(MaxLineLen) :
         remover_call' = Some([method |-> "lines_match",
                               proc_line |-> proc_line,
                               orig_line |-> orig_line,
                               returned |-> lines_match(proc_line, orig_line)])
    /\ UNCHANGED <<builderVars, unreachable, walkerVars>>

\* remover.map_original_to_processed_lines(original_source, processed_source)
MapLines ==
    /\ remover_call = None
    /\ \E original_source \in Texts(OriginalLines, MaxOriginalLines),
          processed_source \in Texts(ProcessedLines, MaxProcessedLines) :
         LET result == map_original_to_processed_lines(original_source,
                                                       processed_source)
         IN  remover_call' = Some([method |-> "map_original_to_processed_lines",
                                   original_source |-> original_source,
                                   processed_source |-> processed_source,
                                   raised |-> result.raised,
                                   returned |-> result.returned])
    /\ UNCHANGED <<builderVars, unreachable, walkerVars>>

\* remover.merge_comments(processed_source, original_source, comments) with
\* the comments of the original text, numbered as process_file_contents
\* numbers them (on the stripped text).
MergeComments ==
    /\ remover_call = None
    /\ \E original_source \in Texts(OriginalLines, MaxOriginalLines),
          processed_source \in Texts(ProcessedLines, MaxProcessedLines) :
         LET comments == get_comments(strip_splitlines(original_source))
             result == merge_comments(processed_source, original_source, comments)
         IN  remover_call' = Some([method |-> "merge_comments",
                                   original_source |-> original_source,
                                   processed_source |-> processed_source,
                                   comments |-> comments,
                                   orig_to_proc |-> result.orig_to_proc,
                                   raised |-> result.raised,
                                   returned |-> result.returned])
    /\ UNCHANGED <<builderVars, unreachable, walkerVars>>

\* remover.process_file_contents(original_source)
ProcessFileContents ==
    /\ remover_call = None
    /\ \E file \in SourceFiles :
         remover_call' = Some(process_file_contents(file))
    /\ UNCHANGED <<builderVars, unreachable, walkerVars>>

\* The collector's pass over the tree of one file, with empty tables.
CollectAnnotations ==
    /\ remover_call = None
    /\ \E tree \in CollectorFiles :
         LET collected == collect_body(tree, ModuleSeed, EmptyTables)
         IN  remover_call' = Some([method |-> "collect",
                                   tree |-> tree,
                                   modified_tree |-> collected.body,
                                   annotations |-> collected.tables])
    /\ UNCHANGED <<builderVars, unreachable, walkerVars>>

\* One call into type_hint_remover.py, on objects that keep no state
\* between calls.
RemoverNext ==
    \/ LinesMatch
    \/ MapLines
    \/ MergeComments
    \/ ProcessFileContents
    \/ CollectAnnotations

RemoverSpec == Init /\ [][RemoverNext]_vars

\* The consumer's for-loop over the walker runs every __next__ to its end.
FairSpec == Spec /\ WF_vars(NextPop) /\ WF_vars(NextStop)

----------------------------------------------------------------------------
(* Properties *)

Range(seq) == { seq[i] : i \in 1..Len(seq) }

NoDuplicates(seq) == \A i, j \in 1..Len(seq) : i # j => seq[i] # seq[j]

Keys == DOMAIN nodes

Defined(k) == ~nodes[k].is_called_only

Leaf(k) == nodes[k].callees = {}

\* The position of x in seq (x occurs in seq).
Pos(seq, x) == CHOOSE i \in 1..Len(seq) : seq[i] = x

\* The non-test function definitions at module level of a body.
ModuleFunctions(body) ==
    { body[i] : i \in { j \in 1..Len(body) :
          body[j].type = "FunctionDef" /\ ~is_test_function(body[j].name) } }

\* C1: edge symmetry.  After any sequence of analyze_file calls, for all
\* nodes f and g of the registry, g is in f.callees if and only if f is in
\* g.callers (and both sets hold only registry nodes).
EdgeSymmetry ==
    \A f \in Keys :
        /\ nodes[f].callees \subseteq Keys
        /\ nodes[f].callers \subseteq Keys
        /\ \A g \in Keys : g \in nodes[f].callees <=> f \in nodes[g].callers

\* Two files analysed, an edge between two different nodes and a self-edge.
EdgeSymmetryWitness ==
    /\ Len(analysed) = 2
    /\ \E f, g \in Keys : f # g /\ g \in nodes[f].callees
    /\ \E f \in Keys : f \in nodes[f].callees

\* C2: for every analysed file and every pair of non-test functions f and g
\* defined at its module level, if the body of f contains the direct call
\* g(...), then g's node is in f.callees and f's node is in g.callers,
\* whichever of the two definitions comes first.
DirectCallLinked ==
    \A i \in 1..Len(analysed) :
        \A f, g \in ModuleFunctions(analysed[i].body) :
            CallName(g.name) \in Range(f.calls) =>
                LET m == ModuleName(analysed[i].path)
                IN  /\ <<m, g.name>> \in nodes[<<m, f.name>>].callees
                    /\ <<m, f.name>> \in nodes[<<m, g.name>>].callers

\* C3: a walker run to exhaustion has yielded every node with
\* is_called_only = FALSE exactly once, nodes on call cycles and nodes that
\* call only themselves included.
WalkerYieldsEveryDefinedNode ==
    w_state = "stopped" =>
        /\ NoDuplicates(yielded)
        /\ \A k \in Keys : Defined(k) => k \in Range(yielded)

\* C4: in every state of a walker no called-only node has been yielded, no
\* node has been yielded twice, and visited is exactly the set of the nodes
\* yielded so far.
WalkerYieldsDefinedOnce ==
    w_state # "none" =>
        /\ \A i \in 1..Len(yielded) : ~nodes[yielded[i]].is_called_only
        /\ NoDuplicates(yielded)
        /\ visited = Range(yielded)

\* An exhausted walker that popped a called-only node, skipped an already
\* visited one and yielded at least two nodes.
WalkerYieldsDefinedOnceWitness ==
    /\ w_state = "stopped"
    /\ \E k \in Range(initial_leaf_nodes) : nodes[k].is_called_only
    /\ Len(yielded) >= 2
    /\ pops > Cardinality(Keys)

\* The number of caller edges of the graph.
EdgeCount == Cardinality({ e \in Keys \X Keys : e[2] \in nodes[e[1]].callers })

\* C5: walker termination.  The pops made plus the entries still queued
\* never exceed the number of nodes plus the number of edges of the graph,
\* so after at most that many pops the queue is empty and __next__ raises
\* StopIteration; self-calls, mutual recursion and called-only nodes do not
\* make the walker re-enqueue callers forever.
WalkerTerminates ==
    w_state # "none" => pops + Len(leaf_nodes) <= Cardinality(Keys) + EdgeCount

\* An exhausted walker over a graph with a self-call, a two-node cycle and a
\* called-only node.
WalkerTerminatesWitness ==
    /\ w_state = "stopped"
    /\ pops > 0
    /\ \E f \in Keys : f \in nodes[f].callees
    /\ \E f, g \in Keys : f # g /\ g \in nodes[f].callees /\ f \in nodes[g].callees
    /\ \E k \in Keys : nodes[k].is_called_only

\* The same as a liveness property of the fair walker: a created walker
\* reaches StopIteration.
WalkerEventuallyStops == (w_state = "idle") ~> (w_state = "stopped")

\* C6 as stated: for every edge (g in f.callees, f # g) whose two ends have
\* been yielded, g was yielded before f.
BottomUpOrder ==
    \A f, g \in Range(yielded) :
        (f # g /\ g \in nodes[f].callees) => Pos(yielded, g) < Pos(yielded, f)

\* C6 amended: every yielded node that has callees was reached from one of
\* them: some callee g # f of f is a called-only node or was yielded before f.
YieldedAfterSomeCallee ==
    \A f \in Range(yielded) :
        ~Leaf(f) =>
            \E g \in nodes[f].callees :
                /\ g # f
                /\ \/ nodes[g].is_called_only
                   \/ g \in Range(yielded) /\ Pos(yielded, g) < Pos(yielded, f)

\* A walker that has yielded a node with two callees, one of them yielded
\* after it.
YieldedAfterSomeCalleeWitness ==
    \E f, g \in Range(yielded) :
        /\ f # g
        /\ g \in nodes[f].callees
        /\ Pos(yielded, f) < Pos(yielded, g)
        /\ Cardinality(nodes[f].callees) >= 2

\* C7: leaves first.  Every defined node with no callees is yielded before
\* any defined node that has callees.
LeavesFirst ==
    (\E f \in Range(yielded) : ~Leaf(f)) =>
        /\ \A k \in Keys : (Defined(k) /\ Leaf(k)) => k \in Range(yielded)
        /\ \A f, g \in Range(yielded) :
               (Leaf(g) /\ ~Leaf(f)) => Pos(yielded, g) < Pos(yielded, f)

\* An exhausted walker that yielded two leaves and two nodes with callees.
LeavesFirstWitness ==
    /\ w_state = "stopped"
    /\ Cardinality({ k \in Range(yielded) : Leaf(k) }) >= 2
    /\ Cardinality({ k \in Range(yielded) : ~Leaf(k) }) >= 2

\* C8 as stated: the initial queue holds exactly the registry nodes with no
\* callees and is_called_only = FALSE.
InitialQueueDefinedLeaves ==
    w_state # "none" =>
        Range(initial_leaf_nodes) = { k \in Keys : Leaf(k) /\ Defined(k) }

\* C8 amended: the initial queue holds exactly the registry nodes with no
\* callees, called-only placeholders included, each once, in registry order.
InitialQueueAllLeaves ==
    w_state # "none" =>
        /\ Range(initial_leaf_nodes) = { k \in Keys : Leaf(k) }
        /\ NoDuplicates(initial_leaf_nodes)
        /\ \A i, j \in 1..Len(initial_leaf_nodes) :
               i < j => Pos(order, initial_leaf_nodes[i]) < Pos(order, initial_leaf_nodes[j])

\* A walker created on a graph with a called-only leaf, a defined leaf and a
\* node that is not a leaf.
InitialQueueAllLeavesWitness ==
    /\ w_state # "none"
    /\ \E k \in Range(initial_leaf_nodes) : nodes[k].is_called_only
    /\ \E k \in Range(initial_leaf_nodes) : Defined(k)
    /\ \E k \in Keys : ~Leaf(k)

\* A fresh analyzer.
FreshAnalyzer ==
    [nodes |-> <<>>, order |-> <<>>, files_to_functions |-> <<>>,
     imports |-> <<>>, current_file |-> None, current_class |-> None,
     current_namespace |-> <<>>, resolutions |-> <<>>]

\* The key set and the edges of a registry.
Graph(ns) == [k \in DOMAIN ns |-> [callees |-> ns[k].callees, callers |-> ns[k].callers]]

Reverse(seq) == [i \in 1..Len(seq) |-> seq[Len(seq) + 1 - i]]

\* C9: order tolerance.  The registry built from a file has the same keys
\* and the same edges as the registry built from the file with its
\* definitions in the opposite order, and there is one entry per function.
OrderTolerance ==
    (Len(analysed) = 1 /\ Len(analysed[1].body) = 2) =>
        /\ Graph(nodes) = Graph(analyze_file(FreshAnalyzer, analysed[1].path,
                                             Reverse(analysed[1].body)).nodes)
        /\ \A k \in Keys : k[1] = ModuleName(analysed[1].path) => Len(k) = 2

\* The claim's "test name": starts with test_, or with Test followed by an
\* uppercase letter.
TestName(id) ==
    \/ StartsWith(Chars(id), <<"t", "e", "s", "t", "_">>)
    \/ /\ StartsWith(Chars(id), <<"T", "e", "s", "t">>)
       /\ Len(Chars(id)) >= 5
       /\ Chars(id)[5] \in UpperCase

\* C10: find_unreachable_functions returns exactly the nodes with an
\* observed definition (is_called_only = FALSE), no callers and a last name
\* segment that is not a test name, each once.
UnreachableExact ==
    unreachable # None =>
        /\ Range(unreachable[1]) =
               { k \in Keys : /\ Defined(k)
                              /\ nodes[k].callers = {}
                              /\ ~TestName(k[Len(k)]) }
        /\ NoDuplicates(unreachable[1])

\* A result with two nodes, on a graph that also has a defined node with
\* callers and a called-only node.
UnreachableExactWitness ==
    /\ unreachable # None
    /\ Len(unreachable[1]) >= 2
    /\ \E k \in Keys : Defined(k) /\ nodes[k].callers # {}
    /\ \E k \in Keys : nodes[k].is_called_only

\* The resolved calls self.m(...) met inside a class body.
SelfCalls ==
    { i \in DOMAIN resolutions :
          /\ resolutions[i].call.func = "Attribute"
          /\ resolutions[i].call.value = "self"
          /\ resolutions[i].class # None }

\* C11: sibling-method resolution.  Every call self.m(...) inside the body
\* of class C of module M, directly in a method or in a function nested in
\* a method, resolves to M.C.m, and its edge is linked to the node keyed
\* M.C.m, whether m is defined before or after the calling method.
SiblingMethodResolved ==
    \A i \in SelfCalls :
        LET r == resolutions[i]
            sibling == <<r.namespace[1], r.class[1], r.call.attr>>
        IN  r.resolved = sibling /\ r.node = sibling

\* The files of the scanned repository that analyze_repository is to
\* analyse: Python files that are not test files and that parse.
Analysable ==
    { f \in Range(repository_scan[1].files) :
          /\ f.path.ext = ".py"
          /\ ~is_test_file(f.path)
          /\ f.parses }

\* C12: a parse failure is file-scoped.  When a file of a repository scan
\* fails to parse, analyze_repository does not abort: every parseable
\* non-test file of the repository is analysed and its functions are
\* registered.
ParseFailureSkipsFile ==
    repository_scan # None =>
        /\ repository_scan[1].raised = None
        /\ \A f \in Analysable :
              /\ f \in Range(analysed)
              /\ \A d \in ModuleFunctions(f.body) :
                    /\ <<ModuleName(f.path), d.name>> \in Keys
                    /\ Defined(<<ModuleName(f.path), d.name>>)

Min(S) == CHOOSE x \in S : \A y \in S : x <= y

Max(S) == CHOOSE x \in S : \A y \in S : x >= y

\* The comparable content of a line: the text before the first '#', trimmed.
ComparableContent(line) ==
    LET hashes == { i \in 1..Len(line) : Char(line, i) = "#" }
        text == IF hashes = {} THEN line ELSE SubSeq(line, 1, Min(hashes) - 1)
        inked == { i \in 1..Len(text) : Char(text, i) # " " }
    IN  IF inked = {} THEN "" ELSE SubSeq(text, Min(inked), Max(inked))

\* p is an order-preserving, not necessarily contiguous subsequence of o.
IsSubsequence(p, o) ==
    \E at \in [1..Len(p) -> 1..Len(o)] :
        /\ \A i, j \in 1..Len(p) : i < j => at[i] < at[j]
        /\ \A i \in 1..Len(p) : Char(p, i) = Char(o, at[i])

\* The call made is remover.<method>(...).
Called(method) == remover_call # None /\ remover_call[1].method = method

\* C15: for lines whose comparable content is non-blank on both sides,
\* lines_match(processed, original) is true if and only if the processed
\* content is an order-preserving subsequence of the original content.
LinesMatchIsSubsequence ==
    Called("lines_match") =>
        LET proc == ComparableContent(remover_call[1].proc_line)
            orig == ComparableContent(remover_call[1].orig_line)
        IN  (proc # "" /\ orig # "") =>
                (remover_call[1].returned <=> IsSubsequence(proc, orig))

\* A match of a processed content that is not contiguous in the original,
\* with a comment and outer blanks cut off.
LinesMatchIsSubsequenceWitness ==
    /\ Called("lines_match")
    /\ remover_call[1].returned
    /\ remover_call[1].proc_line = "ab#"
    /\ remover_call[1].orig_line = "a b"

\* C16: the blank-line rule.  lines_match is true when both lines are blank
\* after comparable-content extraction and false when exactly one is,
\* whichever side it is.
BlankLineRule ==
    Called("lines_match") =>
        LET proc == ComparableContent(remover_call[1].proc_line)
            orig == ComparableContent(remover_call[1].orig_line)
        IN  /\ (proc = "" /\ orig = "") => remover_call[1].returned
            /\ (proc = "") # (orig = "") => ~remover_call[1].returned

\* The order-preserving assignments of every processed line to a distinct
\* original line that matches it.
Assignments(processed_lines, original_lines) ==
    { at \in [1..Len(processed_lines) -> 1..Len(original_lines)] :
          /\ \A i, j \in 1..Len(processed_lines) : i < j => at[i] < at[j]
          /\ \A i \in 1..Len(processed_lines) :
                lines_match(processed_lines[i], original_lines[at[i]]) }

\* C13: whenever map_original_to_processed_lines returns, the mapping is
\* complete and monotone: every processed line 1..P is the image of exactly
\* one original line of 1..N, and the original line numbers increase
\* strictly with the processed line numbers they map to.
MappingCompleteMonotone ==
    (Called("map_original_to_processed_lines") /\ remover_call[1].raised = None) =>
        LET line_mapping == remover_call[1].returned[1]
            P == Len(strip_splitlines(remover_call[1].processed_source))
            N == Len(strip_splitlines(remover_call[1].original_source))
        IN  /\ DOMAIN line_mapping \subseteq 1..N
            /\ \A o \in DOMAIN line_mapping : line_mapping[o] \in 1..P
            /\ \A q \in 1..P :
                  Cardinality({ o \in DOMAIN line_mapping : line_mapping[o] = q }) = 1
            /\ \A o1, o2 \in DOMAIN line_mapping :
                  o1 < o2 => line_mapping[o1] < line_mapping[o2]

\* Two processed lines mapped, with an original line skipped between them.
MappingCompleteMonotoneWitness ==
    /\ Called("map_original_to_processed_lines")
    /\ remover_call[1].raised = None
    /\ DOMAIN remover_call[1].returned[1] = {1, 3}

\* C14: the aligner raises the alignment error, and returns no mapping, if
\* and only if there is no order-preserving assignment of every processed
\* line to a distinct original line that matches it.
AlignerFailsIffNoAssignment ==
    Called("map_original_to_processed_lines") =>
        /\ remover_call[1].raised # None <=>
               Assignments(strip_splitlines(remover_call[1].processed_source),
                           strip_splitlines(remover_call[1].original_source)) = {}
        /\ remover_call[1].raised # None <=> remover_call[1].returned = None

\* The error raised for the second processed line, after the first one took
\* the only original line that matches it.
AlignerFailsIffNoAssignmentWitness ==
    /\ Called("map_original_to_processed_lines")
    /\ remover_call[1].raised = Some("x = 1")
    /\ remover_call[1].processed_source = <<"x = 1", "x = 1">>
    /\ Len(remover_call[1].original_source) = 3

\* C17: comment preservation in merge_comments.  When the alignment
\* succeeds every recorded comment is in the merged output once, at its
\* original line: a standalone comment as that output line, an inline
\* comment appended to the processed line mapped to its original line; and
\* the other output lines carry no comment text of the record.
CommentsPreserved ==
    (Called("merge_comments") /\ remover_call[1].raised = None) =>
        LET comments == remover_call[1].comments
            orig_to_proc == remover_call[1].orig_to_proc[1]
            processed_lines == strip_splitlines(remover_call[1].processed_source)
            merged == remover_call[1].returned[1]
        IN  /\ DOMAIN comments \subseteq DOMAIN merged
            /\ \A k \in DOMAIN comments :
                  IF comments[k].is_standalone
                  THEN merged[k] = comments[k].comment_text
                  ELSE /\ k \in DOMAIN orig_to_proc
                       /\ merged[k] = processed_lines[orig_to_proc[k]]
                                          \o comments[k].comment_text
            /\ \A k \in DOMAIN merged \ DOMAIN comments :
                  merged[k] = IF k \in DOMAIN orig_to_proc
                              THEN processed_lines[orig_to_proc[k]] ELSE ""

\* Some annotation is left in the statements of body: a return annotation
\* or a parameter annotation of a def or async def, or an annotated
\* assignment.
RECURSIVE Annotated(_)
Annotated(body) ==
    \E i \in 1..Len(body) :
        LET node == body[i]
            params == node.args.posonlyargs \o node.args.args
                      \o node.args.kwonlyargs \o node.args.vararg
                      \o node.args.kwarg
        IN  CASE node.type = "AnnAssign" -> TRUE
              [] node.type \in {"FunctionDef", "AsyncFunctionDef"} ->
                    \/ node.returns # None
                    \/ \E j \in 1..Len(params) : params[j].annotation # None
                    \/ Annotated(node.body)
              [] node.type = "ClassDef" -> Annotated(node.body)
              [] OTHER -> FALSE

\* C18: the stripping pass removes all type annotations.  After it runs on
\* a file no function definition of any kind keeps a return annotation, no
\* parameter of any kind (positional, positional-only, keyword-only, *args,
\* **kwargs) keeps an annotation, and no annotated assignment remains.
AllAnnotationsRemoved ==
    Called("process_file_contents") => ~Annotated(remover_call[1].modified_tree)

\* The characters of a text that are not blanks or line breaks.
RECURSIVE Squeeze(_)
Squeeze(lines) ==
    IF lines = <<>> THEN ""
    ELSE LET RECURSIVE Inked(_)
             Inked(line) ==
                 IF line = "" THEN ""
                 ELSE (IF Char(line, 1) = " " THEN "" ELSE Char(line, 1))
                      \o Inked(SubSeq(line, 2, Len(line)))
         IN  Inked(Head(lines)) \o Squeeze(Tail(lines))

\* The lines of "\n".join(lines): a single empty line joins to the empty text.
Joined(lines) == IF lines = <<"">> THEN <<>> ELSE lines

\* C20: idempotence of stripping.  process_file_contents on a text without
\* annotations returns that text, unchanged up to whitespace, and the pass
\* applied to its own output returns the same output again.
StrippingIdempotent ==
    (/\ Called("process_file_contents")
     /\ ~Annotated(Parse(remover_call[1].file.body))) =>
        /\ remover_call[1].raised = None
        /\ Squeeze(remover_call[1].returned[1])
               = Squeeze(remover_call[1].original_source)
        /\ \E again \in SourceFiles :
               /\ Joined(SourceLines(again.body, 0, again.style))
                      = Joined(remover_call[1].returned[1])
               /\ process_file_contents(again).raised = None
               /\ Joined(process_file_contents(again).returned[1])
                      = Joined(remover_call[1].returned[1])

\* The annotations that a pass over body has to remove, in the order of the
\* source: the table, the qualified name and the text of each return and
\* parameter annotation.
RECURSIVE RemovedAnnotations(_, _)
RemovedAnnotations(body, stack) ==
    IF body = <<>> THEN <<>>
    ELSE LET node == Head(body)
             scope == Append(stack, node.name)
             here ==
               CASE node.type \in {"FunctionDef", "AsyncFunctionDef"} ->
                      (IF node.returns = None THEN <<>>
                       ELSE <<[table |-> "functions", key |-> scope,
                               text |-> node.returns[1]]>>)
                      \o SelectSeq([i \in 1..Len(Params(node.args)) |->
                                      [table |-> "parameters",
                                       key |-> Append(scope, Params(node.args)[i].arg),
                                       text |-> IF Params(node.args)[i].annotation = None
                                                THEN "" ELSE Params(node.args)[i].annotation[1]]],
                                   LAMBDA r : r.text # "")
                      \o RemovedAnnotations(node.body, scope)
                 [] node.type = "ClassDef" -> RemovedAnnotations(node.body, scope)
                 [] OTHER -> <<>>
         IN  here \o RemovedAnnotations(Tail(body), stack)

\* The qualified names of the annotations of one table among removed.
KeysOf(removed, table) ==
    { removed[i].key : i \in { j \in 1..Len(removed) : removed[j].table = table } }

\* The last annotation among removed that has the table and the key of
\* removed[i].
LastOf(removed, i) ==
    removed[Max({ j \in 1..Len(removed) :
                     /\ removed[j].table = removed[i].table
                     /\ removed[j].key = removed[i].key })]

\* C19 as stated: after the pass, every removed return or parameter
\* annotation is the value of the entry of its table under its qualified
\* name, and the tables have no other keys.
RecordingRoundTrip ==
    Called("collect") =>
        LET removed == RemovedAnnotations(remover_call[1].tree, ModuleSeed)
            annotations == remover_call[1].annotations
        IN  /\ ~Annotated(remover_call[1].modified_tree)
            /\ DOMAIN annotations.functions = KeysOf(removed, "functions")
            /\ DOMAIN annotations.parameters = KeysOf(removed, "parameters")
            /\ \A i \in 1..Len(removed) :
                   annotations[removed[i].table][removed[i].key] = removed[i].text

\* C19, amended: after the pass, the keys of the tables are the qualified
\* names of the removed return and parameter annotations, and the entry
\* under a qualified name is the text of the last removed annotation with
\* that name: of two defs with one qualified name, the later one is recorded.
RecordingLastDefinition ==
    Called("collect") =>
        LET removed == RemovedAnnotations(remover_call[1].tree, ModuleSeed)
            annotations == remover_call[1].annotations
        IN  /\ ~Annotated(remover_call[1].modified_tree)
            /\ DOMAIN annotations.functions = KeysOf(removed, "functions")
            /\ DOMAIN annotations.parameters = KeysOf(removed, "parameters")
            /\ \A i \in 1..Len(removed) :
                   annotations[removed[i].table][removed[i].key]
                       = LastOf(removed, i).text

\* Two defs of f in one file, a: int -> int and then a: str -> str: the
\* tables hold str under module.f and under module.f.a.
RecordingLastDefinitionWitness ==
    /\ Called("collect")
    /\ Len(remover_call[1].tree) = 2
    /\ remover_call[1].tree[1].type = "FunctionDef"
    /\ remover_call[1].tree[2].type = "FunctionDef"
    /\ remover_call[1].tree[1].name = remover_call[1].tree[2].name
    /\ remover_call[1].tree[1].returns = Some("int")
    /\ remover_call[1].tree[2].returns = Some("str")
    /\ remover_call[1].tree[1].args.args[1].annotation = Some("int")
    /\ remover_call[1].tree[2].args.args[1].annotation = Some("str")
    /\ remover_call[1].annotations.functions[<<"<module>", "f">>] = "str"
    /\ remover_call[1].annotations.parameters[<<"<module>", "f", "a">>] = "str"

\* The claim's "test file": the name before the extension starts with
\* test_ or ends with _test, or the directory is named test or tests.
TestFile(path) ==
    \/ StartsWith(Chars(path.stem), <<"t", "e", "s", "t", "_">>)
    \/ EndsWith(Chars(path.stem), <<"_", "t", "e", "s", "t">>)
    \/ path.dir \in {"test", "tests"}

\* The function definitions at the top of a module body.
TopLevelDefs(body) ==
    { body[i] : i \in { j \in 1..Len(body) : body[j].type = "FunctionDef" } }

\* C21: the test-exclusion predicate.  A repository scan that ends leaves
\* out of the Python files that parse exactly the test files, and of the
\* function definitions at the top of an analysed file exactly those with a
\* test name (test_..., or Test followed by an uppercase letter) are not
\* registered.
TestExclusionExact ==
    /\ (repository_scan # None /\ repository_scan[1].raised = None) =>
           \A f \in Range(repository_scan[1].files) :
               (f.path.ext = ".py" /\ f.parses) =>
                   (f \in Range(analysed) <=> ~TestFile(f.path))
    /\ \A i \in DOMAIN analysed :
           \A d \in TopLevelDefs(analysed[i].body) :
               (/\ <<ModuleName(analysed[i].path), d.name>> \in Keys
                /\ Defined(<<ModuleName(analysed[i].path), d.name>>))
                   <=> ~TestName(d.name)

\* The keys in the per-file lists.
Tracked ==
    UNION { Range(files_to_functions[file]) : file \in DOMAIN files_to_functions }

\* C22: in every registry state, a node is called-only if and only if it
\* has no line range: a called-only node has neither lineno nor end_lineno
\* (the constructor's assertion holds of it) and a node with an observed
\* definition has both.
CalledOnlyIffNoLines ==
    \A k \in Keys :
        /\ nodes[k].is_called_only <=>
               (nodes[k].lineno = None /\ nodes[k].end_lineno = None)
        /\ FunctionNodeAssertion(nodes[k])
        /\ Defined(k) => (nodes[k].lineno # None /\ nodes[k].end_lineno # None)

\* A registry with a called-only node, a node created by its definition and
\* a node created by a call and then defined.
CalledOnlyIffNoLinesWitness ==
    /\ \E k \in Keys : nodes[k].is_called_only
    /\ \E k \in Keys : Defined(k) /\ k \in Tracked
    /\ \E k \in Keys :
           /\ Defined(k)
           /\ k \notin Tracked
           /\ \E i \in DOMAIN resolutions : resolutions[i].resolved = k

\* C23: promotion never conflicts.  The file and the line range of a node
\* whose definition was observed are never changed by a later definition
\* with the same qualified name.
DefinitionNeverOverwritten ==
    [][\A k \in Keys :
          Defined(k) =>
              /\ nodes'[k].filename = nodes[k].filename
              /\ nodes'[k].lineno = nodes[k].lineno
              /\ nodes'[k].end_lineno = nodes[k].end_lineno]_vars

\* C24: promotion keeps the node.  When the definition of a placeholder's
\* key is visited, the node stays where it is in the registry, keeps the
\* callers it had, gets the file and line range and stops being
\* called-only; a node that is not called-only never becomes called-only.
PromotionKeepsNode ==
    /\ [](\A i \in DOMAIN resolutions :
             Join(resolutions[i].namespace) \in nodes[resolutions[i].node].callers)
    /\ [][\A k \in Keys :
             /\ k \in DOMAIN nodes'
             /\ NoDuplicates(order')
             /\ Pos(order', k) = Pos(order, k)
             /\ nodes[k].callers \subseteq nodes'[k].callers
             /\ Defined(k) => ~nodes'[k].is_called_only
             /\ (nodes[k].is_called_only /\ ~nodes'[k].is_called_only) =>
                    /\ nodes'[k].filename = current_file'[1]
                    /\ nodes'[k].lineno # None
                    /\ nodes'[k].end_lineno # None]_vars

\* A node created by a call while one file was analysed and defined while
\* a later file was: it has the callers of the first file.
PromotionKeepsNodeWitness ==
    \E k \in Keys :
        /\ Defined(k)
        /\ k \notin Tracked
        /\ Len(analysed) = 2
        /\ nodes[k].filename = analysed[2].path
        /\ nodes[k].callers # {}
        /\ \A c \in nodes[k].callers : nodes[c].filename = analysed[1].path

\* C25: the per-file lists in declaration order.  Every node with an
\* observed definition is once in the list of its file and in no other
\* list, no list holds a called-only node, and each list is in the order of
\* the definitions in the file; also for a node that a call created first.
DeclarationOrderLists ==
    /\ \A k \in Keys :
           Defined(k) =>
               /\ nodes[k].filename \in DOMAIN files_to_functions
               /\ Cardinality({ i \in DOMAIN files_to_functions[nodes[k].filename] :
                                   files_to_functions[nodes[k].filename][i] = k }) = 1
               /\ \A file \in DOMAIN files_to_functions :
                      k \in Range(files_to_functions[file]) => file = nodes[k].filename
    /\ \A file \in DOMAIN files_to_functions :
           /\ \A k \in Range(files_to_functions[file]) : Defined(k)
           /\ \A i, j \in DOMAIN files_to_functions[file] :
                  i < j => nodes[files_to_functions[file][i]].lineno[1]
                             < nodes[files_to_functions[file][j]].lineno[1]

\* The local names that the imports at the top of a module body declare.
Aliases(body) ==
    { IF body[i].asname # None THEN body[i].asname
      ELSE IF body[i].type = "Import" THEN body[i].name ELSE <<body[i].name>> :
          i \in { j \in 1..Len(body) : body[j].type \in {"Import", "ImportFrom"} } }

\* The aliases declared by the analysed files of the module named module.
AliasesOfModule(module) ==
    UNION { Aliases(analysed[i].body) :
                i \in { j \in DOMAIN analysed : ModuleName(analysed[j].path) = module } }

\* C26: the import table is per file.  After a file is analysed the table
\* holds only aliases that this file declares, and a call f(...) in a file
\* that declares no alias f resolves to a name of its own module or to a
\* built-in, whatever the files analysed before it import.
ImportTablePerFile ==
    /\ analysed # <<>> =>
           DOMAIN imports \subseteq Aliases(analysed[Len(analysed)].body)
    /\ \A i \in DOMAIN resolutions :
           (/\ resolutions[i].call.func = "Name"
            /\ <<resolutions[i].call.id>>
                   \notin AliasesOfModule(resolutions[i].namespace[1])) =>
               resolutions[i].resolved[1]
                   \in {resolutions[i].namespace[1], "builtins"}

\* The resolved calls f(...) whose name is no import alias of an analysed
\* file, no built-in and not the segment before the last of any key.
BareCalls ==
    { i \in DOMAIN resolutions :
          /\ resolutions[i].call.func = "Name"
          /\ \A j \in DOMAIN analysed :
                 <<resolutions[i].call.id>> \notin Aliases(analysed[j].body)
          /\ resolutions[i].call.id \notin Builtins
          /\ \A k \in Keys : Len(k) > 1 => k[Len(k) - 1] # resolutions[i].call.id }

\* C27: the bare-identifier fallback.  A call f(...) whose name is not an
\* import alias, not a built-in and not the class segment of a registered
\* key resolves to <current module>.f, wherever the call occurs.
BareCallResolvesToModule ==
    \A i \in BareCalls :
        resolutions[i].resolved
            = <<resolutions[i].namespace[1], resolutions[i].call.id>>

\* The statements of the tree before are all in the tree after, the
\* compound ones with their bodies, and a declaration without a value is
\* the assignment of None.
RECURSIVE DeclarationsKept(_, _)
DeclarationsKept(before, after) ==
    /\ Len(after) = Len(before)
    /\ \A i \in 1..Len(before) :
           CASE IsCompound(before[i]) ->
                  /\ IsCompound(after[i])
                  /\ after[i].body # <<>>
                  /\ DeclarationsKept(before[i].body, after[i].body)
             [] before[i].type = "AnnAssign" /\ before[i].value = None ->
                  after[i] = Assign(before[i].target, Value("None", "None"), None)
             [] OTHER -> TRUE

\* C28: a declaration-only annotated assignment is rewritten into the
\* assignment of a "no value" literal and not deleted, so that no class or
\* function body of the file is empty after stripping.
DeclarationsBecomePlaceholders ==
    Called("process_file_contents") =>
        DeclarationsKept(Parse(remover_call[1].file.body),
                         remover_call[1].modified_tree)

\* C29: merge_comments joins exactly one line for every line of the
\* trimmed original text, in the order of the original: a mapped line gives
\* its processed line (with the inline comment of the original line after
\* it), an unmapped line with a standalone comment gives the comment, any
\* other line gives the empty line; a blank line of the original gives a
\* blank line at the same position.
MergeKeepsLineCount ==
    ((Called("merge_comments") \/ Called("process_file_contents"))
     /\ remover_call[1].raised = None) =>
        LET comments == remover_call[1].comments
            orig_to_proc == remover_call[1].orig_to_proc[1]
            original_lines == strip_splitlines(remover_call[1].original_source)
            processed_lines == strip_splitlines(remover_call[1].processed_source)
            merged == remover_call[1].returned[1]
        IN  /\ Len(merged) = Len(original_lines)
            /\ \A k \in 1..Len(original_lines) :
                  /\ IF k \in DOMAIN orig_to_proc
                     THEN \/ merged[k] = processed_lines[orig_to_proc[k]]
                          \/ /\ k \in DOMAIN comments
                             /\ merged[k] = processed_lines[orig_to_proc[k]]
                                                \o comments[k].comment_text
                     ELSE IF k \in DOMAIN comments /\ comments[k].is_standalone
                     THEN merged[k] = comments[k].comment_text
                     ELSE merged[k] = ""
                  /\ Strip(original_lines[k]) = "" => Strip(merged[k]) = ""
            /\ \A j, k \in DOMAIN orig_to_proc :
                  j < k => orig_to_proc[j] < orig_to_proc[k]

\* A merge of an original text with a blank line between two lines of
\* code: three lines are joined, the second one empty.
MergeKeepsLineCountWitness ==
    /\ Called("merge_comments")
    /\ remover_call[1].raised = None
    /\ Len(strip_splitlines(remover_call[1].original_source)) = 3
    /\ Strip(strip_splitlines(remover_call[1].original_source)[2]) = ""
    /\ 2 \notin DOMAIN remover_call[1].orig_to_proc[1]
    /\ Len(remover_call[1].returned[1]) = 3
    /\ remover_call[1].returned[1][2] = ""
    /\ remover_call[1].returned[1][3] # ""

\* The nodes reached from the nodes of S by following caller edges zero or
\* more times.
RECURSIVE CallerClosure(_)
CallerClosure(S) ==
    LET next == S \cup UNION { nodes[k].callers : k \in S }
    IN  IF next = S THEN S ELSE CallerClosure(next)

\* C30: the exact yield set of the walker.  A walker run to exhaustion has
\* yielded exactly the nodes with an observed definition that are reached,
\* by caller edges, from a node without callees, called-only nodes being
\* starting points too.
WalkerYieldsReachableFromLeaves ==
    w_state = "stopped" =>
        Range(yielded) =
            { k \in CallerClosure({ l \in Keys : Leaf(l) }) : Defined(k) }

\* An exhausted walker on a graph with a defined node that no leaf reaches
\* and a yielded node that only a called-only leaf reaches.
WalkerYieldsReachableFromLeavesWitness ==
    /\ w_state = "stopped"
    /\ \E k \in Keys : Defined(k) /\ k \notin Range(yielded)
    /\ \E k \in Range(yielded) :
           k \notin CallerClosure({ l \in Keys : Leaf(l) /\ Defined(l) })

====
